---- MODULE Spec2Model ----
(***************************************************************************)
(* The vSphere cluster reconciler of eks-anywhere: one reconciliation pass *)
(* (Reconcile -> BuildSpec -> PhaseRunner.Run over the five registered     *)
(* phases) for one cluster, repeated by an external trigger.               *)
(*                                                                         *)
(* The phase bodies and SetupEnvVars are translated from the reconciler    *)
(* source.  The PhaseRunner, the Result type, the ObjectApplier and the    *)
(* RemoteClientRegistry are packages the reconciler imports; they are      *)
(* modelled from the written specification (sections 3, 4.1, 4.3, 4.4).    *)
(*                                                                         *)
(* Specifications:                                                         *)
(*   Spec          passes of one cluster among other writers of the store  *)
(*   ReplaySpec    passes repeated over unchanged inputs                   *)
(*   EnvSpec       ValidateMachineConfigs of two clusters in one process   *)
(*   RegistrySpec  concurrent GetClient calls on the registry              *)
(*   PoolSpec      one Apply call attempting its objects concurrently      *)
(*   FieldSpec     Apply calls among writers of unmanaged fields           *)
(*   RunnerSpec    the vSphere e2e test runner: createInstance and         *)
(*                 decommInstance calls on one runner                      *)
(*   FillerSpec    one AutoFillTinkerbellProvider call over a list of      *)
(*                 TinkerbellFillers                                       *)
(***************************************************************************)
EXTENDS Integers, Sequences, FiniteSets, TLC

VARIABLES
    pc,           \* "idle" | "running" | "done": position of the pass
    phaseIdx,     \* index in Phases of the next phase Run invokes
    invoked,      \* the phases invoked so far in this pass, in order
    clusterSpec,  \* the *c.Spec built for this pass (NoSpec before BuildSpec succeeds)
    ret,          \* what Reconcile returned: [Result, err]
    lastOut,      \* what the most recently invoked phase returned: [Result, err]
    obs,          \* outcome of each collaborator call of this pass ("none" = not called)
    calls,        \* number of calls of each collaborator in this pass
    env,          \* the process environment (os.Setenv)
    clientCache,  \* cluster keys the RemoteClientRegistry holds a client for
    store,        \* local object store: worker object -> [content, other], content
                  \* the applied version (0 = absent), other a field this system
                  \* does not manage (0 = unset)
    apply,        \* record of the ObjectApplier.Apply call of this pass
    prev,         \* the desired set and outcome of the latest Apply call, while no
                  \* other writer has changed the store since (NoPrev otherwise)
    registry,     \* the RemoteClientRegistry under concurrent callers: its cache,
                  \* the identity locks held, and each caller's GetClient call
    vmc,          \* concurrent passes in ValidateMachineConfigs: per cluster the
                  \* position and the environment its validator call saw
    pool,         \* one Apply call that attempts its objects concurrently: the
                  \* batch, each attempt's position, the shared failure list
    replay,       \* repeated passes over unchanged inputs: the inputs, the number
                  \* of passes started, what the first pass returned and wrote
    runner,       \* the VSphereTestRunner: Url, Insecure, InstanceID, ActivationId
    infra,        \* what the test runner acts on: the govc environment, the SSM
                  \* activations and instances, the runner VM
    runnerLog,    \* the latest createInstance / decommInstance call: what it
                  \* returned, the cleanup calls it made, and the activations
                  \* created by calls that failed
    tink          \* one AutoFillTinkerbellProvider call: the file, the fillers
                  \* given, the shared TinkerbellConfig, the fillers applied so
                  \* far and what the call returned

\* The variables of one cluster's pass.
passVars == <<pc, phaseIdx, invoked, clusterSpec, ret, lastOut, obs, calls, env,
              clientCache, store, apply, prev>>

\* The variables of the specifications other than Spec.
auxVars == <<registry, vmc, pool, replay, runner, infra, runnerLog, tink>>

\* The variables of the e2e test runner.
runnerVars == <<runner, infra, runnerLog>>

vars == <<pc, phaseIdx, invoked, clusterSpec, ret, lastOut, obs, calls, env,
          clientCache, store, apply, prev, registry, vmc, pool, replay,
          runner, infra, runnerLog, tink>>

-----------------------------------------------------------------------------
(* Bounds *)

\* Worker objects are numbered 1..NumObjects (A, B, C, ... in the spec's example).
NumObjects == 2

\* The objects one concurrently attempting Apply call is given are 1..BatchSize.
BatchSize == 3

BatchObjects == 1..BatchSize

\* The passes run over one set of unchanged inputs.
MaxPasses == 2

\* The activations ssm.CreateActivation hands out to the test runner.
MaxActivations == 2

\* The most lookups of the SSM instance that fail before it has registered.
MaxLookupFailures == 11

\* The most fillers one AutoFillTinkerbellProvider call is given.
MaxFillers == 3

\* Concurrent callers of the RemoteClientRegistry.
NumCallers == 2

Callers == 1..NumCallers

\* The cluster identities the callers ask for.
Identities == {"A", "B"}

Objects == 1..NumObjects

\* Contents a desired worker object can have (0 in the store means absent).
Versions == {1, 2}

-----------------------------------------------------------------------------
(* Values *)

\* A nil pointer (*string) / an unset environment variable.
Nil == "<nil>"

\* error values: msg is err.Error(), objs the objects an aggregate error refers to.
NoErr == [msg |-> "<nil>", objs |-> {}]

Err(m) == [msg |-> m, objs |-> {}]

\* fmt.Errorf("<prefix>: %v", err)
Wrap(prefix, e) == [msg |-> prefix \o ": " \o e.msg, objs |-> e.objs]

\* controller.Result: continue (the zero value), stop-clean, stop-clean with requeue.
ZeroResult == [Return |-> FALSE, Requeue |-> FALSE]

ResultWithReturn == [Return |-> TRUE, Requeue |-> FALSE]

ResultWithRequeue == [Return |-> TRUE, Requeue |-> TRUE]

Out(r, e) == [Result |-> r, err |-> e]

NoSpec == [built |-> FALSE, SpecValid |-> FALSE, DatacenterFailureMessage |-> Nil,
           FailureMessage |-> Nil]

-----------------------------------------------------------------------------
(* Phase Runner *)

\* Mutant: ValidateMachineConfigs is registered twice.
Phases_Duplicate ==
    << "ValidateDatacenterConfig", "ValidateMachineConfigs", "ValidateMachineConfigs",
       "ReconcileControlPlane", "ReconcileCNI", "ReconcileWorkers" >>

\* Mutant: ReconcileWorkers is registered before ReconcileCNI.
Phases_Swapped ==
    << "ValidateDatacenterConfig", "ValidateMachineConfigs", "ReconcileControlPlane",
       "ReconcileWorkers", "ReconcileCNI" >>

\* The phase sequence Reconcile registers, in registration order.
Phases ==
    << "ValidateDatacenterConfig", "ValidateMachineConfigs", "ReconcileControlPlane",
       "ReconcileCNI", "ReconcileWorkers" >>

\* Mutant: a stop-clean Result does not end the pass.
RunStep_IgnoresStop(idx, n, out) ==
    IF out.err # NoErr THEN [done |-> TRUE, ret |-> Out(ZeroResult, out.err)]
    ELSE IF idx = n THEN [done |-> TRUE, ret |-> Out(out.Result, NoErr)]
    ELSE [done |-> FALSE, ret |-> Out(ZeroResult, NoErr)]

\* One iteration of PhaseRunner.Run after phase number idx of n returned out:
\* an error ends the pass with (zero Result, err); a stop-clean Result ends it with
\* (Result, nil); after the last phase the pass ends with its Result and nil.
RunStep(idx, n, out) ==
    IF out.err # NoErr THEN [done |-> TRUE, ret |-> Out(ZeroResult, out.err)]
    ELSE IF out.Result.Return THEN [done |-> TRUE, ret |-> Out(out.Result, NoErr)]
    ELSE IF idx = n THEN [done |-> TRUE, ret |-> Out(out.Result, NoErr)]
    ELSE [done |-> FALSE, ret |-> Out(ZeroResult, NoErr)]

-----------------------------------------------------------------------------
(* Reconciler phases *)

\* Mutant: a valid datacenter config clears the cluster's failure message.
ValidateDatacenterConfig_ClearsWhenValid(spec) ==
    IF ~spec.SpecValid
    THEN LET failureMessage ==
                 IF spec.DatacenterFailureMessage # Nil
                 THEN spec.DatacenterFailureMessage
                 ELSE ""
         IN [spec |-> [spec EXCEPT !.FailureMessage = failureMessage],
             out  |-> Out(ZeroResult, NoErr)]
    ELSE [spec |-> [spec EXCEPT !.FailureMessage = Nil],
          out |-> Out(ZeroResult, NoErr)]

\* Mutant: the cluster's failure message is set only when the datacenter config
\* carries one.
ValidateDatacenterConfig_SkipsNilMessage(spec) ==
    IF ~spec.SpecValid /\ spec.DatacenterFailureMessage # Nil
    THEN [spec |-> [spec EXCEPT !.FailureMessage = spec.DatacenterFailureMessage],
          out  |-> Out(ZeroResult, NoErr)]
    ELSE [spec |-> spec, out |-> Out(ZeroResult, NoErr)]

ValidateDatacenterConfig(spec) ==
    IF ~spec.SpecValid
    THEN LET failureMessage ==
                 IF spec.DatacenterFailureMessage # Nil
                 THEN spec.DatacenterFailureMessage
                 ELSE ""
         IN [spec |-> [spec EXCEPT !.FailureMessage = failureMessage],
             out  |-> Out(ZeroResult, NoErr)]
    ELSE [spec |-> spec, out |-> Out(ZeroResult, NoErr)]

\* A value os.Setenv rejects (it contains a NUL byte).
NulValue == "bad-NUL"

\* Mutant: the variable is not written.
Setenv_WritesNothing(e, key, value) ==
    [env |-> e, err |-> IF value = NulValue THEN Err("setenv: invalid argument")
                        ELSE NoErr]

\* os.Setenv(key, value): EINVAL for a value with a NUL byte, else the variable is set.
Setenv(e, key, value) ==
    IF value = NulValue
    THEN [env |-> e, err |-> Err("setenv: invalid argument")]
    ELSE [env |-> [e EXCEPT ![key] = value], err |-> NoErr]

\* The datacenter config of the cluster Spec is about.
Datacenter == "vcenter"

\* vsphere.SetupEnvVars(datacenter): writes the datacenter-derived variables.
VSphereSetupEnvVars(e, datacenter, dcErr) ==
    IF dcErr # NoErr
    THEN [env |-> e, err |-> dcErr]
    ELSE [env |-> [e EXCEPT !.datacenter = datacenter], err |-> NoErr]

\* VsphereCredentials: cli.Get of the credentials secret.
VsphereCredentials(secretErr, secret) ==
    IF secretErr # NoErr
    THEN [secret |-> [username |-> "", password |-> ""], err |-> secretErr]
    ELSE [secret |-> secret, err |-> NoErr]

\* Mutant: when a step fails the variables written before it are restored.
SetupEnvVars_RollsBack(e, datacenter, secretErr, secret, dcErr) ==
    LET cred == VsphereCredentials(secretErr, secret) IN
    IF cred.err # NoErr
    THEN [env |-> e, err |-> Wrap("failed getting vsphere credentials secret", cred.err)]
    ELSE
    LET u == Setenv(e, "username", cred.secret.username) IN
    IF u.err # NoErr
    THEN [env |-> e, err |-> Wrap("failed setting env EKSA_VSPHERE_USERNAME", u.err)]
    ELSE
    LET p == Setenv(u.env, "password", cred.secret.password) IN
    IF p.err # NoErr
    THEN [env |-> e, err |-> Wrap("failed setting env EKSA_VSPHERE_PASSWORD", p.err)]
    ELSE
    LET d == VSphereSetupEnvVars(p.env, datacenter, dcErr) IN
    IF d.err # NoErr
    THEN [env |-> e, err |-> Wrap("failed setting env vars", d.err)]
    ELSE [env |-> d.env, err |-> NoErr]

SetupEnvVars(e, datacenter, secretErr, secret, dcErr) ==
    LET cred == VsphereCredentials(secretErr, secret) IN
    IF cred.err # NoErr
    THEN [env |-> e, err |-> Wrap("failed getting vsphere credentials secret", cred.err)]
    ELSE
    LET u == Setenv(e, "username", cred.secret.username) IN
    IF u.err # NoErr
    THEN [env |-> u.env, err |-> Wrap("failed setting env EKSA_VSPHERE_USERNAME", u.err)]
    ELSE
    LET p == Setenv(u.env, "password", cred.secret.password) IN
    IF p.err # NoErr
    THEN [env |-> p.env, err |-> Wrap("failed setting env EKSA_VSPHERE_PASSWORD", p.err)]
    ELSE
    LET d == VSphereSetupEnvVars(p.env, datacenter, dcErr) IN
    IF d.err # NoErr
    THEN [env |-> d.env, err |-> Wrap("failed setting env vars", d.err)]
    ELSE [env |-> d.env, err |-> NoErr]

\* Mutant: a failure of SetupEnvVars is recorded on the cluster status, too.
ValidateMachineConfigs_RecordsSetupError(spec, e, secretErr, secret, dcErr, validateErr) ==
    LET s == SetupEnvVars(e, Datacenter, secretErr, secret, dcErr) IN
    IF s.err # NoErr
    THEN [spec |-> [spec EXCEPT !.FailureMessage = s.err.msg], env |-> s.env,
          validated |-> FALSE, out |-> Out(ZeroResult, s.err)]
    ELSE IF validateErr # NoErr
    THEN [spec |-> [spec EXCEPT !.FailureMessage = validateErr.msg], env |-> s.env,
          validated |-> TRUE, out |-> Out(ZeroResult, validateErr)]
    ELSE [spec |-> spec, env |-> s.env, validated |-> TRUE,
          out |-> Out(ZeroResult, NoErr)]

\* Mutant: a failed validation is recorded on the status but not returned.
ValidateMachineConfigs_SwallowsError(spec, e, secretErr, secret, dcErr, validateErr) ==
    LET s == SetupEnvVars(e, Datacenter, secretErr, secret, dcErr) IN
    IF s.err # NoErr
    THEN [spec |-> spec, env |-> s.env, validated |-> FALSE,
          out |-> Out(ZeroResult, s.err)]
    ELSE IF validateErr # NoErr
    THEN [spec |-> [spec EXCEPT !.FailureMessage = validateErr.msg], env |-> s.env,
          validated |-> TRUE, out |-> Out(ZeroResult, NoErr)]
    ELSE [spec |-> spec, env |-> s.env, validated |-> TRUE,
          out |-> Out(ZeroResult, NoErr)]

\* validateErr is what validator.ValidateClusterMachineConfigs returns when called.
ValidateMachineConfigs(spec, e, secretErr, secret, dcErr, validateErr) ==
    LET s == SetupEnvVars(e, Datacenter, secretErr, secret, dcErr) IN
    IF s.err # NoErr
    THEN [spec |-> spec, env |-> s.env, validated |-> FALSE,
          out |-> Out(ZeroResult, s.err)]
    ELSE IF validateErr # NoErr
    THEN [spec |-> [spec EXCEPT !.FailureMessage = validateErr.msg], env |-> s.env,
          validated |-> TRUE, out |-> Out(ZeroResult, validateErr)]
    ELSE [spec |-> spec, env |-> s.env, validated |-> TRUE,
          out |-> Out(ZeroResult, NoErr)]

\* Mutant: the unimplemented phase reports an error.
ReconcileControlPlane_Fails(spec) ==
    [spec |-> spec, out |-> Out(ZeroResult, Err("control plane not implemented"))]

\* Mutant: the phase clears the cluster's failure message.
ReconcileControlPlane_ClearsMessage(spec) ==
    [spec |-> [spec EXCEPT !.FailureMessage = Nil], out |-> Out(ZeroResult, NoErr)]

ReconcileControlPlane(spec) ==
    [spec |-> spec, out |-> Out(ZeroResult, NoErr)]

\* The one cluster this reconciler is triggered for (controller.CapiClusterObjectKey).
ClusterKey == "eksa-system/cluster"

\* Mutant: a client served from the cache is dropped from it.
GetClient_EvictsOnHit(cache, key, reachable) ==
    IF key \in cache
    THEN [client |-> key, err |-> NoErr, cache |-> cache \ {key},
          constructed |-> FALSE]
    ELSE IF reachable
    THEN [client |-> key, err |-> NoErr, cache |-> cache \cup {key},
          constructed |-> TRUE]
    ELSE [client |-> Nil, err |-> Err("remote cluster unreachable"),
          cache |-> cache, constructed |-> FALSE]

\* Mutant: the cache is never consulted, every call constructs a client.
GetClient_AlwaysConstructs(cache, key, reachable) ==
    IF reachable
    THEN [client |-> key, err |-> NoErr, cache |-> cache \cup {key}, constructed |-> TRUE]
    ELSE [client |-> Nil, err |-> Err("remote cluster unreachable"), cache |-> cache,
          constructed |-> FALSE]

\* RemoteClientRegistry.GetClient: the cached client if there is one, else a client
\* is constructed (when the workload control plane answers) and cached.
GetClient(cache, key, reachable) ==
    IF key \in cache
    THEN [client |-> key, err |-> NoErr, cache |-> cache, constructed |-> FALSE]
    ELSE IF reachable
    THEN [client |-> key, err |-> NoErr, cache |-> cache \cup {key}, constructed |-> TRUE]
    ELSE [client |-> Nil, err |-> Err("remote cluster unreachable"), cache |-> cache,
          constructed |-> FALSE]

\* Mutant: the GetClient error is not checked.
ReconcileCNI_IgnoresError(got, cniOut) ==
    [cniCalled |-> TRUE, client |-> got.client, out |-> cniOut]

\* Mutant: the error check is inverted (err == nil returns early).
ReconcileCNI_InvertedCheck(got, cniOut) ==
    IF got.err = NoErr
    THEN [cniCalled |-> FALSE, client |-> Nil, out |-> Out(ZeroResult, got.err)]
    ELSE [cniCalled |-> TRUE, client |-> got.client, out |-> cniOut]

\* Mutant: the Result of the CNI reconciler is dropped, only its error is returned.
ReconcileCNI_DropsResult(got, cniOut) ==
    IF got.err # NoErr
    THEN [cniCalled |-> FALSE, client |-> Nil, out |-> Out(ZeroResult, got.err)]
    ELSE [cniCalled |-> TRUE, client |-> got.client,
          out |-> Out(ZeroResult, cniOut.err)]

\* got is what GetClient returned, cniOut what cniReconciler.Reconcile returns when
\* called; client is the client it is called with.
ReconcileCNI(got, cniOut) ==
    IF got.err # NoErr
    THEN [cniCalled |-> FALSE, client |-> Nil, out |-> Out(ZeroResult, got.err)]
    ELSE [cniCalled |-> TRUE, client |-> got.client, out |-> cniOut]

-----------------------------------------------------------------------------
(* Desired-State Applier *)

\* The desired object sets the producer can return: objects (name, content).
DesiredSets == { { <<o, v>> : o \in S } : S \in SUBSET Objects, v \in Versions }

\* An object that is not in the store.
Absent == [content |-> 0, other |-> 0]

\* Mutant: the write replaces the stored object by the desired one.
Merge_Replaces(existing, content) == [content |-> content, other |-> 0]

\* The write of one object: the patch asserts only the fields this system manages,
\* the fields other writers set on the stored object stay as they are.
Merge(existing, content) == [existing EXCEPT !.content = content]

\* The attempt on one desired object d = <<name, content>>: a store write is issued
\* only when the stored content differs; a fault on the object fails the attempt and
\* leaves the store as it was, and the other objects are attempted all the same.
ApplyObject(acc, d, faults) ==
    LET differs == acc.store[d[1]].content # d[2] IN
    [store     |-> IF d[1] \in faults THEN acc.store
                   ELSE [acc.store EXCEPT ![d[1]] = Merge(@, d[2])],
     attempted |-> Append(acc.attempted, d[1]),
     failed    |-> IF d[1] \in faults THEN acc.failed \cup {d[1]} ELSE acc.failed,
     writes    |-> acc.writes + (IF differs THEN 1 ELSE 0)]

\* The attempts on the desired objects named i, i+1, ..., in that order.
RECURSIVE ApplyObjects(_, _, _, _)
ApplyObjects(acc, desired, faults, i) ==
    IF i > NumObjects THEN acc
    ELSE IF \E d \in desired : d[1] = i
    THEN ApplyObjects(ApplyObject(acc, CHOOSE d \in desired : d[1] = i, faults),
                      desired, faults, i + 1)
    ELSE ApplyObjects(acc, desired, faults, i + 1)

\* ObjectApplier.Apply(ctx, producer): produced is what the producer returned.
Apply(st, produced, faults) ==
    IF produced.err # NoErr
    THEN [store |-> st, attempted |-> << >>, failed |-> {}, writes |-> 0,
          out |-> Out(ZeroResult, produced.err)]
    ELSE
    LET r == ApplyObjects([store |-> st, attempted |-> << >>, failed |-> {},
                           writes |-> 0], produced.objs, faults, 1)
    IN [store |-> r.store, attempted |-> r.attempted, failed |-> r.failed,
        writes |-> r.writes,
        out |-> Out(ZeroResult,
                    IF r.failed = {} THEN NoErr
                    ELSE [msg |-> "failed to apply objects", objs |-> r.failed])]

\* The producer closure of ReconcileWorkers: vsphere.WorkersSpec, then WorkerObjects().
WorkersProducer(workersErr, workers) ==
    IF workersErr # NoErr
    THEN [err |-> workersErr, objs |-> {}]
    ELSE [err |-> NoErr, objs |-> workers]

\* Mutant: the error Apply returns is dropped.
ReconcileWorkers_DropsError(st, workersErr, workers, faults) ==
    [Apply(st, WorkersProducer(workersErr, workers), faults)
        EXCEPT !.out = Out(ZeroResult, NoErr)]

\* Mutant: the worker objects are written to the store directly, without comparison.
ReconcileWorkers_WritesAlways(st, workersErr, workers, faults) ==
    LET a == Apply(st, WorkersProducer(workersErr, workers), faults) IN
    [a EXCEPT !.writes = Len(a.attempted) ]

\* Mutant: when some object failed, the writes of the batch are undone.
ReconcileWorkers_RollsBack(st, workersErr, workers, faults) ==
    LET a == Apply(st, WorkersProducer(workersErr, workers), faults) IN
    IF a.failed # {} THEN [a EXCEPT !.store = st] ELSE a

\* Mutant: the desired set of the Apply before is applied again when there is one.
ReconcileWorkers_ReusesDesired(st, workersErr, workers, faults) ==
    Apply(st, WorkersProducer(workersErr,
                              IF prev.known THEN prev.desired ELSE workers), faults)

ReconcileWorkers(st, workersErr, workers, faults) ==
    Apply(st, WorkersProducer(workersErr, workers), faults)

-----------------------------------------------------------------------------
(* Remote Client Registry under concurrent callers *)

\* Mutant: one lock guards the whole registry.
LockFree_Global(held, id) == held = {}

\* Whether a caller may take the lock of identity id: locks are per identity.
LockFree(held, id) == id \notin held

\* A caller with no GetClient call in flight.  started: the identities other callers
\* were fetching when the call began; during: those of them still being fetched when
\* the call returned.
IdleCall ==
    [pc |-> "idle", id |-> Nil, err |-> NoErr, constructed |-> FALSE,
     started |-> {}, during |-> {}]

NoRegistry == [cache |-> {}, held |-> {}, call |-> [c \in Callers |-> IdleCall]]

\* The identities callers other than c are fetching credentials for.
Fetching(reg, c) ==
    { reg.call[d].id : d \in { x \in Callers : x # c /\ reg.call[x].pc = "fetching" } }

\* GetClient(id) up to the credential fetch: under the identity's lock, a cached
\* client is returned at once; otherwise the caller keeps the lock and fetches.
GetClientEnter(reg, c, id) ==
    IF id \in reg.cache
    THEN [reg EXCEPT !.call[c] = [pc |-> "returned", id |-> id, err |-> NoErr,
                                  constructed |-> FALSE,
                                  started |-> Fetching(reg, c),
                                  during |-> Fetching(reg, c)]]
    ELSE [reg EXCEPT !.held = @ \cup {id},
                     !.call[c] = [pc |-> "fetching", id |-> id, err |-> NoErr,
                                  constructed |-> FALSE,
                                  started |-> Fetching(reg, c), during |-> {}]]

\* The credential fetch of caller c came back: on success the client is constructed
\* and cached under the identity, on failure nothing is cached; the lock is released.
GetClientFetched(reg, c, ok) ==
    LET id == reg.call[c].id IN
    [reg EXCEPT !.held = @ \ {id},
                !.cache = IF ok THEN @ \cup {id} ELSE @,
                !.call[c] = [@ EXCEPT !.pc = "returned",
                                      !.err = IF ok THEN NoErr
                                              ELSE Err("workload cluster unreachable"),
                                      !.constructed = ok,
                                      !.during = reg.call[c].started
                                                 \cap Fetching(reg, c)]]

-----------------------------------------------------------------------------
(* Concurrent passes of different clusters *)

\* The datacenter config of each cluster.
DatacenterOf == [c \in Identities |-> "vcenter-" \o c]

\* A cluster with no pass in ValidateMachineConfigs.  secret: the credentials its
\* SetupEnvVars read; seen: the environment at its validator call; interfered:
\* another pass wrote the environment between this pass's first write and its
\* validator call.
IdlePass ==
    [pc |-> "idle", secret |-> [username |-> "", password |-> ""], seen |-> Nil,
     interfered |-> FALSE]

\* Pass c made a step to position p that left the environment at e2: a pass of
\* another cluster that has written the environment and not yet validated has been
\* interfered with when the environment changed.
EnvStep(v, c, p, e1, e2) ==
    [d \in Identities |->
        IF d = c THEN [v[d] EXCEPT !.pc = p]
        ELSE IF v[d].pc \in {"username", "password", "set"} /\ e2 # e1
        THEN [v[d] EXCEPT !.interfered = TRUE]
        ELSE v[d]]

NoVmc == [c \in Identities |-> IdlePass]

-----------------------------------------------------------------------------
(* One Apply call attempting its objects concurrently *)

\* Mutant: the failure list is updated without mutual exclusion.
MayRecord_Unguarded(lock) == TRUE

\* Whether an attempt may start updating the shared failure list: one at a time.
MayRecord(lock) == lock = 0

\* No Apply call in flight.  task: position of the attempt on each object ("none":
\* not in the batch); lock: the object whose attempt is updating the failure list
\* (0: none); snap: the failure list each attempt read before appending to it.
NoPool ==
    [running |-> FALSE, returned |-> FALSE, batch |-> {}, faults |-> {},
     task |-> [o \in BatchObjects |-> "none"], lock |-> 0,
     snap |-> [o \in BatchObjects |-> << >>], failures |-> << >>,
     err |-> NoErr]

\* The summarizing error Apply returns for a failure list.
Aggregate(failures) ==
    IF failures = << >> THEN NoErr
    ELSE [msg |-> "failed to apply objects",
          objs |-> { failures[i] : i \in 1..Len(failures) }]

-----------------------------------------------------------------------------
(* Repeated passes over unchanged inputs *)

\* What the collaborators answer in every pass of a run over unchanged inputs:
\* BuildSpec, the credentials secret and the validator, the registry's probe and
\* the CNI reconciler, the producer, and the objects whose store write fails.
Worlds ==
    [buildErr : {NoErr, Err("build spec failed")},
     valid : BOOLEAN,
     secretErr : {NoErr, Err("secret not found")},
     validateErr : {NoErr, Err("machine config invalid")},
     reachable : BOOLEAN,
     cniOut : {Out(ZeroResult, NoErr), Out(ResultWithRequeue, NoErr),
               Out(ZeroResult, Err("cni reconcile failed"))},
     workersErr : {NoErr, Err("workers spec failed")},
     workers : DesiredSets,
     faults : {{}, {1}}]

\* What a pass returned and left behind.
Summary ==
    [ret |-> ret, FailureMessage |-> clusterSpec.FailureMessage,
     DatacenterFailureMessage |-> clusterSpec.DatacenterFailureMessage,
     invoked |-> invoked, store |-> store, writes |-> calls.writes,
     failed |-> apply.failed]

NoSummary ==
    [ret |-> Out(ZeroResult, NoErr), FailureMessage |-> Nil,
     DatacenterFailureMessage |-> Nil, invoked |-> << >>,
     store |-> [o \in Objects |-> Absent], writes |-> 0, failed |-> {}]

NoReplay == [world |-> Nil, pass |-> 0, first |-> NoSummary]

-----------------------------------------------------------------------------
(* The vSphere e2e test runner *)

\* getTestRunnerName(c.jobId) of the one job the runner serves.
TestRunnerName == "eksa-e2e-job"

\* The id ssm.CreateActivation returns for the n-th activation it creates.
ActivationIdOf(n) == "activation-" \o ToString(n)

\* The id of the SSM instance that registers with activation a.
InstanceIdOf(a) == "i-" \o a

\* strconv.FormatBool
FormatBool(b) == IF b THEN "true" ELSE "false"

\* The runner after construction from its configuration: nothing recorded.
NoRunner == [Url |-> "https://vc", Insecure |-> FALSE, InstanceID |-> "", ActivationId |-> ""]

NoInfra ==
    [govc        |-> [GOVC_USERNAME |-> Nil, GOVC_PASSWORD |-> Nil,
                      GOVC_URL |-> Nil, GOVC_INSECURE |-> Nil],
     created     |-> 0,      \* activations ssm.CreateActivation has created
     activations |-> {},     \* the activations that exist
     instances   |-> {},     \* the registered SSM instances
     vm          |-> FALSE]  \* the VM named TestRunnerName exists

NoAttempts == [deregister |-> Nil, deactivate |-> Nil, rmVms |-> Nil]

NoFindings == [deregister |-> NoErr, deactivate |-> NoErr, rmVms |-> NoErr]

NoInputs ==
    [user |-> Nil, pass |-> Nil, activationErr |-> NoErr, deployErr |-> NoErr,
     failures |-> 0]

NoRunnerLog ==
    [op        |-> "none",
     id        |-> "",           \* the instance id createInstance returned
     err       |-> NoErr,        \* the error the call returned
     before    |-> NoRunner,     \* the runner when the call began
     inputs    |-> NoInputs,     \* what createInstance's lookups and calls returned
     polls     |-> 0,            \* the lookups of the SSM instance createInstance made
     attempted |-> NoAttempts,   \* the argument of each cleanup call made (Nil = not made)
     findings  |-> NoFindings,   \* the error each cleanup call returned
     orphaned  |-> {}]           \* activations created by calls that returned an error

\* setEnvironment: user and pass are the values of TEST_RUNNER_GOVC_USERNAME and
\* TEST_RUNNER_GOVC_PASSWORD (Nil = unset).
setEnvironment(v, govc, user, pass) ==
    IF user = Nil \/ user = ""
    THEN [govc |-> govc,
          err |-> Err("missing environment variable: TEST_RUNNER_GOVC_USERNAME")]
    ELSE
    LET u == Setenv(govc, "GOVC_USERNAME", user) IN
    IF u.err # NoErr
    THEN [govc |-> u.env, err |-> Wrap("unable to set GOVC_USERNAME", u.err)]
    ELSE
    IF pass = Nil \/ pass = ""
    THEN [govc |-> u.env,
          err |-> Err("missing environment variable: TEST_RUNNER_GOVC_PASSWORD")]
    ELSE
    LET p == Setenv(u.env, "GOVC_PASSWORD", pass) IN
    IF p.err # NoErr
    THEN [govc |-> p.env, err |-> Wrap("unable to set GOVC_PASSWORD", p.err)]
    ELSE
    LET l == Setenv(p.env, "GOVC_URL", v.Url) IN
    IF l.err # NoErr
    THEN [govc |-> l.env, err |-> Wrap("unable to set GOVC_URL", l.err)]
    ELSE
    LET i == Setenv(l.env, "GOVC_INSECURE", FormatBool(v.Insecure)) IN
    IF i.err # NoErr
    THEN [govc |-> i.env, err |-> Wrap("unable to set GOVC_URL", i.err)]
    ELSE [govc |-> i.env, err |-> NoErr]

\* The attempts createInstance allows retrier.Retry.
RetryAttempts == 10

\* The closure createInstance hands to retrier.Retry, at its attempt-th call:
\* ssm.GetInstanceByActivationId fails for the first `failures` calls and finds
\* the instance from then on.
GetInstanceByActivationId(failures, attempt) ==
    IF attempt <= failures
    THEN Wrap("failed to get ssm instance info post ovf deployment",
              Err("instance not registered"))
    ELSE NoErr

RECURSIVE Retry(_, _, _)
\* retrier.Retry(maxRetries, backOff, fn) after `retries` calls of fn: fn is called
\* again; nil ends the loop, an error ends it once maxRetries calls were made.
Retry(maxRetries, failures, retries) ==
    LET err == GetInstanceByActivationId(failures, retries + 1) IN
    IF err = NoErr
    THEN [err |-> NoErr, polls |-> retries + 1]
    ELSE IF retries + 1 < maxRetries
    THEN Retry(maxRetries, failures, retries + 1)
    ELSE [err |-> err, polls |-> retries + 1]

\* Mutant: one more attempt is allowed.
WaitForInstance_OneMoreAttempt(failures) == Retry(RetryAttempts + 1, failures, 0)

\* The wait of createInstance for the SSM instance to register.
WaitForInstance(failures) == Retry(RetryAttempts, failures, 0)

\* Mutant: the ids are recorded as soon as the template is deployed, before the
\* SSM instance is found.
createInstance_RecordsBeforeInstance(v, w, user, pass, activationErr, deployErr, failures) ==
    LET s  == setEnvironment(v, w.govc, user, pass)
        w1 == [w EXCEPT !.govc = s.govc]
    IN
    IF s.err # NoErr
    THEN [v |-> v, infra |-> w1, id |-> "", polls |-> 0,
          err |-> Wrap("unable to create vSphere test runner instance", s.err)]
    ELSE
    IF activationErr # NoErr
    THEN [v |-> v, infra |-> w1, id |-> "", polls |-> 0,
          err |-> Wrap("unable to create ssm activation", activationErr)]
    ELSE
    LET ActivationID == ActivationIdOf(w1.created + 1)
        w2 == [w1 EXCEPT !.created = @ + 1, !.activations = @ \cup {ActivationID}]
    IN
    IF deployErr # NoErr
    THEN [v |-> v, infra |-> w2, id |-> "", polls |-> 0,
          err |-> deployErr]
    ELSE
    LET w3 == [w2 EXCEPT !.vm = TRUE]
        InstanceId == InstanceIdOf(ActivationID)
        recorded == [v EXCEPT !.InstanceID = InstanceId, !.ActivationId = ActivationID]
        r == WaitForInstance(failures)
    IN
    IF r.err # NoErr
    THEN [v |-> recorded, infra |-> w3, id |-> "", polls |-> r.polls,
          err |-> Wrap("waiting for ssm instance to activate " \o TestRunnerName, r.err)]
    ELSE
    [v     |-> recorded,
     infra |-> [w3 EXCEPT !.instances = @ \cup {InstanceId}],
     id    |-> InstanceId, polls |-> r.polls, err |-> NoErr]

\* createInstance of the runner v on the infrastructure w.  activationErr and
\* deployErr are what ssm.CreateActivation and vsphere.DeployTemplate return;
\* failures is the number of lookups that fail before the instance has
\* registered.  polls counts the lookups made.
createInstance(v, w, user, pass, activationErr, deployErr, failures) ==
    LET s  == setEnvironment(v, w.govc, user, pass)
        w1 == [w EXCEPT !.govc = s.govc]
    IN
    IF s.err # NoErr
    THEN [v |-> v, infra |-> w1, id |-> "", polls |-> 0,
          err |-> Wrap("unable to create vSphere test runner instance", s.err)]
    ELSE
    IF activationErr # NoErr
    THEN [v |-> v, infra |-> w1, id |-> "", polls |-> 0,
          err |-> Wrap("unable to create ssm activation", activationErr)]
    ELSE
    LET ActivationID == ActivationIdOf(w1.created + 1)
        w2 == [w1 EXCEPT !.created = @ + 1, !.activations = @ \cup {ActivationID}]
    IN
    IF deployErr # NoErr
    THEN [v |-> v, infra |-> w2, id |-> "", polls |-> 0,
          err |-> deployErr]
    ELSE
    LET w3 == [w2 EXCEPT !.vm = TRUE]
        r  == WaitForInstance(failures)
    IN
    IF r.err # NoErr
    THEN [v |-> v, infra |-> w3, id |-> "", polls |-> r.polls,
          err |-> Wrap("waiting for ssm instance to activate " \o TestRunnerName, r.err)]
    ELSE
    LET InstanceId == InstanceIdOf(ActivationID) IN
    [v     |-> [v EXCEPT !.InstanceID = InstanceId, !.ActivationId = ActivationID],
     infra |-> [w3 EXCEPT !.instances = @ \cup {InstanceId}],
     id    |-> InstanceId, polls |-> r.polls, err |-> NoErr]

\* Mutant: a cleanup call is made only when the calls before it succeeded.
decommInstance_StopsAtFirstError(v, w, deregisterError, deactivateError, deleteError) ==
    IF deregisterError # NoErr
    THEN [infra |-> w,
          attempted |-> [NoAttempts EXCEPT !.deregister = v.InstanceID],
          err |-> Wrap("failed to decommission vsphere test runner ssm instance",
                       deregisterError)]
    ELSE
    LET w1 == [w EXCEPT !.instances = @ \ {v.InstanceID}] IN
    IF deactivateError # NoErr
    THEN [infra |-> w1,
          attempted |-> [NoAttempts EXCEPT !.deregister = v.InstanceID,
                                           !.deactivate = v.ActivationId],
          err |-> Wrap("failed to decommission vsphere test runner ssm instance",
                       deactivateError)]
    ELSE
    LET w2 == [w1 EXCEPT !.activations = @ \ {v.ActivationId}] IN
    [infra |-> IF deleteError = NoErr THEN [w2 EXCEPT !.vm = FALSE] ELSE w2,
     attempted |-> [deregister |-> v.InstanceID, deactivate |-> v.ActivationId,
                    rmVms |-> TestRunnerName],
     err |-> IF deleteError # NoErr
             THEN Wrap("failed to decommission vsphere test runner ssm instance",
                       deleteError)
             ELSE NoErr]

\* Mutant: DeleteActivation is called for every activation created for the job.
decommInstance_DeletesByJob(v, w, deregisterError, deactivateError, deleteError) ==
    [infra |->
        [w EXCEPT
            !.instances   = IF deregisterError = NoErr THEN @ \ {v.InstanceID} ELSE @,
            !.activations = IF deactivateError = NoErr THEN {} ELSE @,
            !.vm          = IF deleteError = NoErr THEN FALSE ELSE @],
     attempted |-> [deregister |-> v.InstanceID, deactivate |-> v.ActivationId,
                    rmVms |-> TestRunnerName],
     err |->
        IF deregisterError # NoErr
        THEN Wrap("failed to decommission vsphere test runner ssm instance",
                  deregisterError)
        ELSE IF deactivateError # NoErr
        THEN Wrap("failed to decommission vsphere test runner ssm instance",
                  deactivateError)
        ELSE IF deleteError # NoErr
        THEN Wrap("failed to decommission vsphere test runner ssm instance",
                  deleteError)
        ELSE NoErr]

\* decommInstance of the runner v: the three cleanup calls, each with the error
\* it returns; a call that returns no error has removed what its argument names.
decommInstance(v, w, deregisterError, deactivateError, deleteError) ==
    [infra |->
        [w EXCEPT
            !.instances   = IF deregisterError = NoErr THEN @ \ {v.InstanceID} ELSE @,
            !.activations = IF deactivateError = NoErr THEN @ \ {v.ActivationId} ELSE @,
            !.vm          = IF deleteError = NoErr THEN FALSE ELSE @],
     attempted |-> [deregister |-> v.InstanceID, deactivate |-> v.ActivationId,
                    rmVms |-> TestRunnerName],
     err |->
        IF deregisterError # NoErr
        THEN Wrap("failed to decommission vsphere test runner ssm instance",
                  deregisterError)
        ELSE IF deactivateError # NoErr
        THEN Wrap("failed to decommission vsphere test runner ssm instance",
                  deactivateError)
        ELSE IF deleteError # NoErr
        THEN Wrap("failed to decommission vsphere test runner ssm instance",
                  deleteError)
        ELSE NoErr]

-----------------------------------------------------------------------------
(* Tinkerbell config fillers *)

\* The name of the cluster in the file.
ClusterName == "eksa"

\* providers.GetControlPlaneNodeName / providers.GetEtcdNodeName
GetControlPlaneNodeName(clusterName) == clusterName \o "-cp"

GetEtcdNodeName(clusterName) == clusterName \o "-etcd"

\* The hardware selector value of etcd machines.
ExternalEtcd == "etcd"

\* The Kubernetes versions the release manifest has a versions bundle for.
BundledVersions == {"1.23"}

\* cluster.GetVersionsBundleForVersion(version.Get(), kubernetesVersion)
GetVersionsBundleForVersion(kubernetesVersion) ==
    IF kubernetesVersion \in BundledVersions
    THEN [bundle |-> kubernetesVersion, err |-> NoErr]
    ELSE [bundle |-> Nil, err |-> Err("kubernetes version not supported")]

\* v1alpha1.NewDefaultTinkerbellTemplateConfigCreate: the template built from
\* its arguments (the arguments that are parameters of the filler are fixed).
NewDefaultTinkerbellTemplateConfigCreate(name, versionBundle, osImageURL) ==
    [Name |-> name, Bundle |-> versionBundle, OSImageURL |-> osImageURL]

\* A Go map without entries.
EmptyMap == [n \in {} |-> Nil]

\* m with the entry name -> value set (m[name] = value of a Go map).
MapSet(m, name, value) ==
    [n \in DOMAIN m \cup {name} |-> IF n = name THEN value ELSE m[n]]

\* What a filler returns: the shared config as it left it, the error, and
\* whether it dereferenced a nil machine config.
Filled(config, err) == [config |-> config, err |-> err, panic |-> FALSE]

\* Mutant: the templates generated so far are given the new URL, too.
WithTinkerbellOSImageURL_UpdatesTemplates(value, config) ==
    Filled([config EXCEPT
                !.datacenterConfig.OSImageURL = value,
                !.templateConfigs =
                    [n \in DOMAIN @ |-> [@[n] EXCEPT !.OSImageURL = value]]],
           NoErr)

WithTinkerbellOSImageURL(value, config) ==
    Filled([config EXCEPT !.datacenterConfig.OSImageURL = value], NoErr)

\* Mutant: the etcd machine config is written whether or not one exists.
WithTinkerbellEtcdMachineConfig_Overwrites(config) ==
    LET clusterName == config.clusterConfig.Name
        name == GetEtcdNodeName(clusterName)
        m == [Name |-> name, HardwareSelector |-> ExternalEtcd,
              TemplateRef |-> clusterName]
    IN Filled([config EXCEPT !.machineConfigs = MapSet(@, name, m)], NoErr)

WithTinkerbellEtcdMachineConfig(config) ==
    LET clusterName == config.clusterConfig.Name
        name == GetEtcdNodeName(clusterName)
    IN
    IF name \notin DOMAIN config.machineConfigs
    THEN LET m == [Name |-> name, HardwareSelector |-> ExternalEtcd,
                   TemplateRef |-> clusterName]
         IN Filled([config EXCEPT !.machineConfigs = MapSet(@, name, m)], NoErr)
    ELSE Filled(config, NoErr)

WithCustomTinkerbellMachineConfig(selector, config) ==
    IF selector \notin DOMAIN config.machineConfigs
    THEN LET m == [Name |-> selector, HardwareSelector |-> selector,
                   TemplateRef |-> ""]
         IN Filled([config EXCEPT !.machineConfigs = MapSet(@, selector, m)], NoErr)
    ELSE Filled(config, NoErr)

\* The template is stored before the machine config is written through its
\* pointer, which is nil when the file has no machine config of that name.
WithCustomControlPlaneTemplateConfig(config) ==
    LET versionBundle == GetVersionsBundleForVersion(config.clusterConfig.KubernetesVersion) IN
    IF versionBundle.err # NoErr
    THEN Filled(config, Wrap("creating control plane node template config",
                             versionBundle.err))
    ELSE
    LET clusterName == config.clusterConfig.Name
        cpName == GetControlPlaneNodeName(clusterName)
        cpTemplateConfig ==
            NewDefaultTinkerbellTemplateConfigCreate(
                cpName, versionBundle.bundle, config.datacenterConfig.OSImageURL)
        stored == [config EXCEPT !.templateConfigs =
                                     MapSet(@, cpTemplateConfig.Name, cpTemplateConfig)]
    IN
    IF cpName \notin DOMAIN config.machineConfigs
    THEN [config |-> stored, err |-> NoErr, panic |-> TRUE]
    ELSE Filled([stored EXCEPT !.machineConfigs[cpName].TemplateRef = cpName], NoErr)

WithCustomWorkerTemplateConfig(config) ==
    LET versionBundle == GetVersionsBundleForVersion(config.clusterConfig.KubernetesVersion) IN
    IF versionBundle.err # NoErr
    THEN Filled(config, Wrap("creating worker node template config",
                             versionBundle.err))
    ELSE
    LET workerName == config.clusterConfig.Name
        workerTemplateConfig ==
            NewDefaultTinkerbellTemplateConfigCreate(
                workerName, versionBundle.bundle, config.datacenterConfig.OSImageURL)
        stored == [config EXCEPT !.templateConfigs =
                                     MapSet(@, workerTemplateConfig.Name,
                                            workerTemplateConfig)]
    IN
    IF workerName \notin DOMAIN config.machineConfigs
    THEN [config |-> stored, err |-> NoErr, panic |-> TRUE]
    ELSE Filled([stored EXCEPT !.machineConfigs[workerName].TemplateRef = workerName],
                NoErr)

\* f(config) for a TinkerbellFiller f, given as the constructor that made it
\* and its argument.
Fill(f, config) ==
    CASE f.with = "WithTinkerbellOSImageURL" ->
             WithTinkerbellOSImageURL(f.arg, config)
      [] f.with = "WithTinkerbellEtcdMachineConfig" ->
             WithTinkerbellEtcdMachineConfig(config)
      [] f.with = "WithCustomTinkerbellMachineConfig" ->
             WithCustomTinkerbellMachineConfig(f.arg, config)
      [] f.with = "WithCustomControlPlaneTemplateConfig" ->
             WithCustomControlPlaneTemplateConfig(config)
      [] f.with = "WithCustomWorkerTemplateConfig" ->
             WithCustomWorkerTemplateConfig(config)

\* The TinkerbellConfig before the file is read.
NoConfig ==
    [clusterConfig    |-> [Name |-> "", KubernetesVersion |-> ""],
     datacenterConfig |-> [OSImageURL |-> ""],
     machineConfigs   |-> EmptyMap,
     templateConfigs  |-> EmptyMap]

\* ([]byte, error) of AutoFillTinkerbellProvider; << >> is the nil slice.
NoOutput == [bytes |-> << >>, err |-> NoErr]

NoTink ==
    [pc      |-> "start",    \* "start" | "filling" | "done" | "panicked"
     file    |-> NoConfig,   \* what the file named by filename holds
     fillers |-> << >>,      \* the fillers given
     config  |-> NoConfig,   \* the config every filler is handed
     applied |-> << >>,      \* per filler applied: the filler, the OS image URL of
                             \* the datacenter config when it began, and the error
                             \* it returned
     out     |-> NoOutput]

-----------------------------------------------------------------------------
(* State machine *)

NoObs ==
    [build |-> "none", setup |-> "none", validator |-> "none", getClient |-> "none",
     cniOut |-> Out(ZeroResult, NoErr), producer |-> "none",
     \* reachable: whether the workload control plane answered when GetClient had
     \* to construct a client ("none": not asked); constructed: GetClient built a new
     \* client (credentials fetched); retry: the pass before this one ended on a
     \* GetClient error and this pass has not entered ReconcileWorkers yet.
     reachable |-> "none", constructed |-> FALSE, retry |-> FALSE,
     \* cniClient: the client the CNI reconciler was called with
     cniClient |-> Nil]

NoCalls == [validator |-> 0, getClient |-> 0, cni |-> 0, producer |-> 0, writes |-> 0]

NoApply ==
    [produced |-> FALSE, desired |-> {}, faulty |-> {}, attempted |-> << >>,
     failed |-> {}, writes |-> 0, changed |-> FALSE, repeat |-> "none",
     \* differs: the producer returned another desired set than in the Apply before
     differs |-> FALSE]

NoPrev == [known |-> FALSE, desired |-> {}, clean |-> FALSE]

Init ==
    /\ pc = "idle"
    /\ phaseIdx = 1
    /\ invoked = << >>
    /\ clusterSpec = NoSpec
    /\ ret = Out(ZeroResult, NoErr)
    /\ lastOut = Out(ZeroResult, NoErr)
    /\ obs = NoObs
    /\ calls = NoCalls
    /\ env = [username |-> Nil, password |-> Nil, datacenter |-> Nil]
    /\ clientCache = {}
    /\ store = [o \in Objects |-> Absent]
    /\ apply = NoApply
    /\ prev = NoPrev
    /\ registry = NoRegistry
    /\ vmc = NoVmc
    /\ pool = NoPool
    /\ replay = NoReplay
    /\ runner = NoRunner
    /\ infra = NoInfra
    /\ runnerLog = NoRunnerLog
    /\ tink = NoTink

\* Mutant: the BuildSpec error is not checked.
ReconcileBegin_IgnoresError(buildErr, spec) ==
    [pc |-> "running", spec |-> spec, ret |-> Out(ZeroResult, NoErr)]

\* Mutant: the spec of the pass before is used again when there is one.
ReconcileBegin_KeepsSpec(buildErr, spec) ==
    IF buildErr # NoErr
    THEN [pc |-> "done", spec |-> NoSpec, ret |-> Out(ZeroResult, buildErr)]
    ELSE [pc |-> "running", spec |-> IF clusterSpec.built THEN clusterSpec ELSE spec,
          ret |-> Out(ZeroResult, NoErr)]

\* Reconcile up to the Run call: BuildSpec, and the early return when it fails.
ReconcileBegin(buildErr, spec) ==
    IF buildErr # NoErr
    THEN [pc |-> "done", spec |-> NoSpec, ret |-> Out(ZeroResult, buildErr)]
    ELSE [pc |-> "running", spec |-> spec, ret |-> Out(ZeroResult, NoErr)]

\* Reconcile up to the first phase, for given answers of BuildSpec: its error, and
\* the datacenter status and cluster failure message of the spec it built.
ReconcileWith(buildErr, valid, dcMsg, msg) ==
    /\ pc # "running"
    /\ LET b == ReconcileBegin(buildErr,
                       [built |-> TRUE, SpecValid |-> valid,
                        DatacenterFailureMessage |-> dcMsg, FailureMessage |-> msg])
          IN /\ pc' = b.pc
             /\ clusterSpec' = b.spec
             /\ ret' = b.ret
             /\ obs' = [NoObs EXCEPT !.build = IF buildErr # NoErr THEN "fail" ELSE "ok",
                                     !.retry = (obs.getClient = "fail")]
    /\ phaseIdx' = 1
    /\ invoked' = << >>
    /\ lastOut' = Out(ZeroResult, NoErr)
    /\ calls' = NoCalls
    /\ apply' = NoApply
    /\ UNCHANGED <<env, clientCache, store, prev>>

\* An external trigger starts a pass (no pass of this cluster is in flight).
Reconcile ==
    /\ \E buildErr \in {NoErr, Err("build spec failed")},
          valid \in BOOLEAN,
          dcMsg \in {Nil, "datacenter invalid"},
          msg \in {Nil, "stale"} :
          ReconcileWith(buildErr, valid, dcMsg, msg)
    /\ UNCHANGED auxVars

\* Mutant: Run invokes a phase that returned an error a second time.
Ran_RetriesOnError(name, out) ==
    LET r == RunStep(phaseIdx, Len(Phases), out)
        again == out.err # NoErr /\ name \notin { invoked[i] : i \in 1..Len(invoked) }
    IN
    /\ invoked' = Append(invoked, name)
    /\ lastOut' = out
    /\ pc' = IF r.done /\ ~again THEN "done" ELSE "running"
    /\ phaseIdx' = IF r.done \/ again THEN phaseIdx ELSE phaseIdx + 1
    /\ ret' = IF again THEN Out(ZeroResult, NoErr) ELSE r.ret

\* Run's bookkeeping after the phase called name returned out.
Ran(name, out) ==
    LET r == RunStep(phaseIdx, Len(Phases), out) IN
    /\ invoked' = Append(invoked, name)
    /\ lastOut' = out
    /\ pc' = IF r.done THEN "done" ELSE "running"
    /\ phaseIdx' = IF r.done THEN phaseIdx ELSE phaseIdx + 1
    /\ ret' = r.ret

\* Run is about to invoke the phase called name.
AtPhase(name) ==
    /\ pc = "running"
    /\ phaseIdx \in 1..Len(Phases)
    /\ Phases[phaseIdx] = name

DoValidateDatacenterConfig ==
    /\ AtPhase("ValidateDatacenterConfig")
    /\ LET p == ValidateDatacenterConfig(clusterSpec) IN
          /\ clusterSpec' = p.spec
          /\ Ran("ValidateDatacenterConfig", p.out)
    /\ UNCHANGED auxVars
    /\ UNCHANGED <<obs, calls, env, clientCache, store, apply, prev>>

\* The ValidateMachineConfigs phase for given answers of its collaborators.
ValidateMachineConfigsWith(secretErr, username, password, dcErr, validateErr) ==
    /\ AtPhase("ValidateMachineConfigs")
    /\ LET p == ValidateMachineConfigs(clusterSpec, env, secretErr,
                       [username |-> username, password |-> password], dcErr,
                       validateErr)
          IN /\ clusterSpec' = p.spec
             /\ env' = p.env
             /\ obs' = [obs EXCEPT
                          !.setup = IF p.validated \/ p.out.err = NoErr
                                    THEN "ok" ELSE "fail",
                          !.validator = IF ~p.validated THEN "none"
                                        ELSE IF validateErr # NoErr THEN "fail"
                                        ELSE "ok"]
             /\ calls' = [calls EXCEPT
                            !.validator = @ + (IF p.validated THEN 1 ELSE 0)]
             /\ Ran("ValidateMachineConfigs", p.out)
    /\ UNCHANGED <<clientCache, store, apply, prev>>

DoValidateMachineConfigs ==
    /\ \E secretErr \in {NoErr, Err("secret not found")},
          username \in {"admin", NulValue},
          password \in {"secret", NulValue},
          dcErr \in {NoErr, Err("setenv: invalid argument")},
          validateErr \in {NoErr, Err("machine config invalid")} :
          ValidateMachineConfigsWith(secretErr, username, password, dcErr,
                                     validateErr)
    /\ UNCHANGED auxVars

DoReconcileControlPlane ==
    /\ AtPhase("ReconcileControlPlane")
    /\ LET p == ReconcileControlPlane(clusterSpec) IN
          /\ clusterSpec' = p.spec
          /\ Ran("ReconcileControlPlane", p.out)
    /\ UNCHANGED auxVars
    /\ UNCHANGED <<obs, calls, env, clientCache, store, apply, prev>>

\* What a CNI reconciler can return.
CNIOutcomes ==
    { Out(ZeroResult, NoErr), Out(ResultWithReturn, NoErr), Out(ResultWithRequeue, NoErr),
      Out(ZeroResult, Err("cni reconcile failed")),
      Out(ResultWithReturn, Err("cni reconcile failed")) }

\* The ReconcileCNI phase for given answers of the registry's probe and of the CNI
\* reconciler.
ReconcileCNIWith(reachable, cniOut) ==
    /\ AtPhase("ReconcileCNI")
    /\ LET got == GetClient(clientCache, ClusterKey, reachable)
              p == ReconcileCNI(got, cniOut)
          IN /\ clientCache' = got.cache
             /\ obs' = [obs EXCEPT
                          !.getClient = IF got.err # NoErr THEN "fail" ELSE "ok",
                          !.reachable = IF ClusterKey \in clientCache THEN "none"
                                        ELSE IF reachable THEN "yes" ELSE "no",
                          !.constructed = got.constructed,
                          !.cniClient = p.client,
                          !.cniOut = IF p.cniCalled THEN cniOut ELSE @]
             /\ calls' = [calls EXCEPT
                            !.getClient = @ + 1,
                            !.cni = @ + (IF p.cniCalled THEN 1 ELSE 0)]
             /\ Ran("ReconcileCNI", p.out)
    /\ UNCHANGED <<clusterSpec, env, store, apply, prev>>

DoReconcileCNI ==
    /\ \E reachable \in BOOLEAN, cniOut \in CNIOutcomes :
          ReconcileCNIWith(reachable, cniOut)
    /\ UNCHANGED auxVars

\* The ReconcileWorkers phase for given answers of the producer and given objects
\* whose store write fails.
ReconcileWorkersWith(workersErr, workers, faults) ==
    /\ AtPhase("ReconcileWorkers")
    /\ LET p == ReconcileWorkers(store, workersErr, workers, faults)
              ok == workersErr = NoErr
          IN /\ store' = p.store
             /\ apply' = [produced |-> ok,
                          desired |-> IF ok THEN workers ELSE {},
                          faulty |-> IF ok THEN {d[1] : d \in workers} \cap faults
                                     ELSE {},
                          changed |-> p.store # store,
                          attempted |-> p.attempted,
                          failed |-> p.failed,
                          writes |-> p.writes,
                          repeat |-> IF ok /\ prev.known /\ prev.desired = workers
                                     THEN (IF prev.clean THEN "clean" ELSE "failed")
                                     ELSE "none",
                          differs |-> ok /\ prev.known /\ prev.desired # workers]
             /\ prev' = IF ok
                        THEN [known |-> TRUE, desired |-> workers,
                              clean |-> p.failed = {}]
                        ELSE NoPrev
             /\ obs' = [obs EXCEPT !.producer = IF ok THEN "ok" ELSE "fail",
                                    !.retry = FALSE]
             /\ calls' = [calls EXCEPT !.producer = @ + 1, !.writes = @ + p.writes]
             /\ Ran("ReconcileWorkers", p.out)
    /\ UNCHANGED <<clusterSpec, env, clientCache>>

DoReconcileWorkers ==
    /\ \E workersErr \in {NoErr, Err("workers spec failed")},
          workers \in DesiredSets,
          faults \in SUBSET Objects :
          ReconcileWorkersWith(workersErr, workers, faults)
    /\ UNCHANGED auxVars

\* Another writer of the local store creates, changes or deletes a worker object.
OtherWriter ==
    /\ \E o \in Objects, v \in {0} \cup Versions :
          /\ v # store[o].content
          /\ store' = [store EXCEPT ![o] = IF v = 0 THEN Absent
                                           ELSE [@ EXCEPT !.content = v]]
    /\ prev' = NoPrev
    /\ UNCHANGED auxVars
    /\ UNCHANGED <<pc, phaseIdx, invoked, clusterSpec, ret, lastOut, obs, calls, env,
                   clientCache, apply>>

Next ==
    \/ Reconcile
    \/ DoValidateDatacenterConfig
    \/ DoValidateMachineConfigs
    \/ DoReconcileControlPlane
    \/ DoReconcileCNI
    \/ DoReconcileWorkers
    \/ OtherWriter

Spec == Init /\ [][Next]_vars

-----------------------------------------------------------------------------
(* Concurrent GetClient calls *)

\* Caller c calls GetClient(id) and gets the identity's lock.
CallGetClient(c, id) ==
    /\ registry.call[c].pc = "idle"
    /\ LockFree(registry.held, id)
    /\ registry' = GetClientEnter(registry, c, id)
    /\ UNCHANGED <<passVars, vmc, pool, replay, runnerVars, tink>>

\* The credential fetch of caller c completes (it may also never do so).
FetchReturns(c) ==
    /\ registry.call[c].pc = "fetching"
    /\ \E ok \in BOOLEAN : registry' = GetClientFetched(registry, c, ok)
    /\ UNCHANGED <<passVars, vmc, pool, replay, runnerVars, tink>>

\* Caller c takes what GetClient returned.
TakeResult(c) ==
    /\ registry.call[c].pc = "returned"
    /\ registry' = [registry EXCEPT !.call[c] = IdleCall]
    /\ UNCHANGED <<passVars, vmc, pool, replay, runnerVars, tink>>

\* The registry's entry for an identity is invalidated.
Invalidate(id) ==
    /\ id \in registry.cache
    /\ id \notin registry.held
    /\ registry' = [registry EXCEPT !.cache = @ \ {id}]
    /\ UNCHANGED <<passVars, vmc, pool, replay, runnerVars, tink>>

RegistryNext ==
    \/ \E c \in Callers, id \in Identities : CallGetClient(c, id)
    \/ \E c \in Callers : FetchReturns(c)
    \/ \E c \in Callers : TakeResult(c)
    \/ \E id \in Identities : Invalidate(id)

RegistrySpec == Init /\ [][RegistryNext]_vars

-----------------------------------------------------------------------------
(* Apply calls among writers of unmanaged fields *)

\* The values another writer sets the unmanaged field of an object to.
OtherValues == {1, 2}

\* One ObjectApplier.Apply call with the workers producer.
ApplyCall ==
    /\ \E workersErr \in {NoErr, Err("workers spec failed")},
          workers \in DesiredSets,
          faults \in SUBSET Objects :
          LET p == ReconcileWorkers(store, workersErr, workers, faults)
              ok == workersErr = NoErr
          IN /\ store' = p.store
             /\ apply' = [NoApply EXCEPT
                            !.produced = ok,
                            !.desired = IF ok THEN workers ELSE {},
                            !.faulty = IF ok THEN {d[1] : d \in workers} \cap faults
                                       ELSE {},
                            !.changed = p.store # store,
                            !.attempted = p.attempted,
                            !.failed = p.failed,
                            !.writes = p.writes]
    /\ UNCHANGED auxVars
    /\ UNCHANGED <<pc, phaseIdx, invoked, clusterSpec, ret, lastOut, obs, calls, env,
                   clientCache, prev>>

\* Another writer sets the field it owns on a stored object.
FieldWriter ==
    /\ \E o \in Objects, v \in OtherValues :
          /\ store[o].content # 0
          /\ store[o].other # v
          /\ store' = [store EXCEPT ![o].other = v]
    /\ apply' = NoApply
    /\ UNCHANGED auxVars
    /\ UNCHANGED <<pc, phaseIdx, invoked, clusterSpec, ret, lastOut, obs, calls, env,
                   clientCache, prev>>

\* Another writer deletes a stored object.
DeleteObject ==
    /\ \E o \in Objects :
          /\ store[o].content # 0
          /\ store' = [store EXCEPT ![o] = Absent]
    /\ apply' = NoApply
    /\ UNCHANGED auxVars
    /\ UNCHANGED <<pc, phaseIdx, invoked, clusterSpec, ret, lastOut, obs, calls, env,
                   clientCache, prev>>

FieldNext ==
    \/ ApplyCall
    \/ FieldWriter
    \/ DeleteObject

FieldSpec == Init /\ [][FieldNext]_vars

-----------------------------------------------------------------------------
(* ValidateMachineConfigs of passes for different clusters, one process *)

\* SetupEnvVars of the pass of cluster c, statement by statement: the credentials
\* secret is read,
PassGetsSecret(c) ==
    /\ vmc[c].pc = "idle"
    /\ \E secretErr \in {NoErr, Err("secret not found")},
          username \in {"admin", NulValue},
          password \in {"secret", NulValue} :
          LET cred == VsphereCredentials(secretErr,
                          [username |-> username, password |-> password])
          IN vmc' = [vmc EXCEPT ![c] = [IdlePass EXCEPT
                        !.pc = IF cred.err # NoErr THEN "failed" ELSE "secret",
                        !.secret = cred.secret]]
    /\ UNCHANGED <<passVars, registry, pool, replay, runnerVars, tink>>

\* the username is written to the process environment,
PassSetsUsername(c) ==
    /\ vmc[c].pc = "secret"
    /\ LET u == Setenv(env, "username", vmc[c].secret.username) IN
          /\ env' = u.env
          /\ vmc' = EnvStep(vmc, c, IF u.err # NoErr THEN "failed" ELSE "username",
                            env, u.env)
    /\ UNCHANGED <<pc, phaseIdx, invoked, clusterSpec, ret, lastOut, obs, calls,
                   clientCache, store, apply, prev, registry, pool, replay, runnerVars, tink>>

\* the password is written,
PassSetsPassword(c) ==
    /\ vmc[c].pc = "username"
    /\ LET p == Setenv(env, "password", vmc[c].secret.password) IN
          /\ env' = p.env
          /\ vmc' = EnvStep(vmc, c, IF p.err # NoErr THEN "failed" ELSE "password",
                            env, p.env)
    /\ UNCHANGED <<pc, phaseIdx, invoked, clusterSpec, ret, lastOut, obs, calls,
                   clientCache, store, apply, prev, registry, pool, replay, runnerVars, tink>>

\* and vsphere.SetupEnvVars writes the datacenter-derived variables.
PassSetsDatacenter(c) ==
    /\ vmc[c].pc = "password"
    /\ \E dcErr \in {NoErr, Err("setenv: invalid argument")} :
          LET d == VSphereSetupEnvVars(env, DatacenterOf[c], dcErr) IN
          /\ env' = d.env
          /\ vmc' = EnvStep(vmc, c, IF d.err # NoErr THEN "failed" ELSE "set",
                            env, d.env)
    /\ UNCHANGED <<pc, phaseIdx, invoked, clusterSpec, ret, lastOut, obs, calls,
                   clientCache, store, apply, prev, registry, pool, replay, runnerVars, tink>>

\* The pass of cluster c calls the validator, which reads the process environment.
PassValidates(c) ==
    /\ vmc[c].pc = "set"
    /\ vmc' = [vmc EXCEPT ![c].pc = "validated", ![c].seen = env]
    /\ UNCHANGED <<passVars, registry, pool, replay, runnerVars, tink>>

\* The pass of cluster c is over; a later trigger starts another one.
PassEnds(c) ==
    /\ vmc[c].pc \in {"validated", "failed"}
    /\ vmc' = [vmc EXCEPT ![c] = IdlePass]
    /\ UNCHANGED <<passVars, registry, pool, replay, runnerVars, tink>>

EnvNext ==
    \/ \E c \in Identities : PassGetsSecret(c)
    \/ \E c \in Identities : PassSetsUsername(c)
    \/ \E c \in Identities : PassSetsPassword(c)
    \/ \E c \in Identities : PassSetsDatacenter(c)
    \/ \E c \in Identities : PassValidates(c)
    \/ \E c \in Identities : PassEnds(c)

EnvSpec == Init /\ [][EnvNext]_vars

-----------------------------------------------------------------------------
(* Concurrent attempts of one Apply call *)

\* Apply starts one attempt per object the producer returned.
ApplyBegins ==
    /\ ~pool.running
    /\ \E batch \in SUBSET BatchObjects, faults \in SUBSET BatchObjects :
          /\ batch # {}
          /\ pool' = [NoPool EXCEPT
                         !.running = TRUE,
                         !.batch = batch,
                         !.faults = faults \cap batch,
                         !.task = [o \in BatchObjects |->
                                     IF o \in batch THEN "todo" ELSE "none"]]
    /\ UNCHANGED <<passVars, registry, vmc, replay, runnerVars, tink>>

\* The attempt on object o is made: it succeeds, or fails and has a record to add.
AttemptObject(o) ==
    /\ pool.running
    /\ pool.task[o] = "todo"
    /\ pool' = [pool EXCEPT !.task[o] = IF o \in pool.faults THEN "failed"
                                         ELSE "done"]
    /\ UNCHANGED <<passVars, registry, vmc, replay, runnerVars, tink>>

\* The failed attempt on o starts updating the failure list: it reads the list.
BeginRecord(o) ==
    /\ pool.running
    /\ pool.task[o] = "failed"
    /\ MayRecord(pool.lock)
    /\ pool' = [pool EXCEPT !.task[o] = "recording", !.lock = o,
                              !.snap[o] = pool.failures]
    /\ UNCHANGED <<passVars, registry, vmc, replay, runnerVars, tink>>

\* The failed attempt on o writes the list it read with its record appended.
EndRecord(o) ==
    /\ pool.running
    /\ pool.task[o] = "recording"
    /\ pool' = [pool EXCEPT !.task[o] = "done",
                              !.lock = IF @ = o THEN 0 ELSE @,
                              !.failures = Append(pool.snap[o], o)]
    /\ UNCHANGED <<passVars, registry, vmc, replay, runnerVars, tink>>

\* Apply returns once every attempt has completed, with the aggregated error.
ApplyReturns ==
    /\ pool.running
    /\ \A o \in pool.batch : pool.task[o] = "done"
    /\ pool' = [pool EXCEPT !.running = FALSE, !.returned = TRUE,
                              !.err = Aggregate(pool.failures)]
    /\ UNCHANGED <<passVars, registry, vmc, replay, runnerVars, tink>>

PoolNext ==
    \/ ApplyBegins
    \/ \E o \in BatchObjects : AttemptObject(o)
    \/ \E o \in BatchObjects : BeginRecord(o)
    \/ \E o \in BatchObjects : EndRecord(o)
    \/ ApplyReturns

PoolSpec == Init /\ [][PoolNext]_vars

-----------------------------------------------------------------------------
(* Passes repeated over unchanged inputs, no other writer *)

\* The first pass starts from a store that holds nothing or version 1 of every
\* worker object, with or without a cached workload client.
ReplayInit ==
    /\ pc = "idle"
    /\ phaseIdx = 1
    /\ invoked = << >>
    /\ clusterSpec = NoSpec
    /\ ret = Out(ZeroResult, NoErr)
    /\ lastOut = Out(ZeroResult, NoErr)
    /\ obs = NoObs
    /\ calls = NoCalls
    /\ env = [username |-> Nil, password |-> Nil, datacenter |-> Nil]
    /\ clientCache \in {{}, {ClusterKey}}
    /\ store \in { [o \in Objects |-> Absent],
                   [o \in Objects |-> [content |-> 1, other |-> 0]] }
    /\ apply = NoApply
    /\ prev = NoPrev
    /\ registry = NoRegistry
    /\ vmc = NoVmc
    /\ pool = NoPool
    /\ \E w \in Worlds : replay = [NoReplay EXCEPT !.world = w]
    /\ runner = NoRunner
    /\ infra = NoInfra
    /\ runnerLog = NoRunnerLog
    /\ tink = NoTink

\* The trigger starts the next pass; what the first pass returned is kept.
ReplayReconcile ==
    /\ replay.pass < MaxPasses
    /\ ReconcileWith(replay.world.buildErr, replay.world.valid,
                     "datacenter invalid", Nil)
    /\ replay' = [replay EXCEPT !.pass = @ + 1,
                                !.first = IF replay.pass = 1 THEN Summary ELSE @]
    /\ UNCHANGED <<registry, vmc, pool, runnerVars, tink>>

ReplayValidateMachineConfigs ==
    /\ ValidateMachineConfigsWith(replay.world.secretErr, "admin", "secret", NoErr,
                                  replay.world.validateErr)
    /\ UNCHANGED auxVars

ReplayReconcileCNI ==
    /\ ReconcileCNIWith(replay.world.reachable, replay.world.cniOut)
    /\ UNCHANGED auxVars

ReplayReconcileWorkers ==
    /\ ReconcileWorkersWith(replay.world.workersErr, replay.world.workers,
                            replay.world.faults)
    /\ UNCHANGED auxVars

ReplayNext ==
    \/ ReplayReconcile
    \/ DoValidateDatacenterConfig
    \/ ReplayValidateMachineConfigs
    \/ DoReconcileControlPlane
    \/ ReplayReconcileCNI
    \/ ReplayReconcileWorkers

ReplaySpec == ReplayInit /\ [][ReplayNext]_vars

-----------------------------------------------------------------------------
(* createInstance and decommInstance calls on one test runner *)

\* What TEST_RUNNER_GOVC_USERNAME / TEST_RUNNER_GOVC_PASSWORD can hold.
LookupValues == {Nil, "", "secret"}

ActivationErrs == {NoErr, Err("CreateActivation failed")}

DeployErrs == {NoErr, Err("DeployTemplate failed")}

\* The lookups that fail before the instance has registered.
LookupFailures == 0..MaxLookupFailures

DeregisterErrs == {NoErr, Err("DeregisterInstance failed")}

DeactivateErrs == {NoErr, Err("DeleteActivation failed")}

DeleteErrs == {NoErr, Err("rm vms failed")}

\* The runner is constructed from a configuration file; its Url may be one that
\* os.Setenv rejects.
RunnerInit ==
    /\ pc = "idle"
    /\ phaseIdx = 1
    /\ invoked = << >>
    /\ clusterSpec = NoSpec
    /\ ret = Out(ZeroResult, NoErr)
    /\ lastOut = Out(ZeroResult, NoErr)
    /\ obs = NoObs
    /\ calls = NoCalls
    /\ env = [username |-> Nil, password |-> Nil, datacenter |-> Nil]
    /\ clientCache = {}
    /\ store = [o \in Objects |-> Absent]
    /\ apply = NoApply
    /\ prev = NoPrev
    /\ registry = NoRegistry
    /\ vmc = NoVmc
    /\ pool = NoPool
    /\ replay = NoReplay
    /\ runner \in {NoRunner, [NoRunner EXCEPT !.Url = NulValue]}
    /\ infra = NoInfra
    /\ runnerLog = NoRunnerLog
    /\ tink = NoTink

\* One createInstance call, while ssm.CreateActivation has ids left to hand out.
CreateInstance ==
    /\ infra.created < MaxActivations
    /\ \E user \in LookupValues, pass \in LookupValues,
          activationErr \in ActivationErrs, deployErr \in DeployErrs,
          failures \in LookupFailures :
          LET r == createInstance(runner, infra, user, pass,
                                  activationErr, deployErr, failures)
          IN
          \* A lookup or call that is not made has no answer.
          /\ user \in {Nil, ""} => pass = Nil
          /\ setEnvironment(runner, infra.govc, user, pass).err # NoErr =>
                 activationErr = NoErr /\ deployErr = NoErr
          /\ activationErr # NoErr => deployErr = NoErr
          /\ r.polls = 0 => failures = 0
          /\ runner' = r.v
          /\ infra' = r.infra
          /\ runnerLog' =
                 [op        |-> "createInstance",
                  id        |-> r.id,
                  err       |-> r.err,
                  before    |-> runner,
                  inputs    |-> [user |-> user, pass |-> pass,
                                 activationErr |-> activationErr,
                                 deployErr |-> deployErr, failures |-> failures],
                  polls     |-> r.polls,
                  attempted |-> NoAttempts,
                  findings  |-> NoFindings,
                  orphaned  |-> runnerLog.orphaned \cup
                                    (IF r.err # NoErr
                                     THEN r.infra.activations \ infra.activations
                                     ELSE {})]
    /\ UNCHANGED <<passVars, registry, vmc, pool, replay, tink>>

\* One decommInstance call.
DecommInstance ==
    /\ \E deregisterError \in DeregisterErrs, deactivateError \in DeactivateErrs,
          deleteError \in DeleteErrs :
          LET r == decommInstance(runner, infra,
                                  deregisterError, deactivateError, deleteError)
          IN
          /\ infra' = r.infra
          /\ runnerLog' =
                 [op        |-> "decommInstance",
                  id        |-> "",
                  err       |-> r.err,
                  before    |-> runner,
                  inputs    |-> NoInputs,
                  polls     |-> 0,
                  attempted |-> r.attempted,
                  findings  |-> [deregister |-> deregisterError,
                                 deactivate |-> deactivateError,
                                 rmVms |-> deleteError],
                  orphaned  |-> runnerLog.orphaned]
    /\ UNCHANGED <<passVars, registry, vmc, pool, replay, runner, tink>>

RunnerNext ==
    \/ CreateInstance
    \/ DecommInstance

RunnerSpec == RunnerInit /\ [][RunnerNext]_vars

-----------------------------------------------------------------------------
(* One AutoFillTinkerbellProvider call *)

\* The machine configs a cluster file can hold: those of the control plane and
\* the workers, with or without one for etcd and one named "gpu"; or one of the
\* first two missing.
MachineNameSets ==
    { {GetControlPlaneNodeName(ClusterName), ClusterName} \cup extra :
          extra \in SUBSET {GetEtcdNodeName(ClusterName), "gpu"} }
    \cup { {ClusterName}, {GetControlPlaneNodeName(ClusterName)} }

\* A machine config as the file holds it.
FileMachineConfig(name) ==
    [Name |-> name, HardwareSelector |-> "from-file", TemplateRef |-> ""]

\* What the Get* calls read from the file.
Files ==
    { [clusterConfig    |-> [Name |-> ClusterName, KubernetesVersion |-> k],
       datacenterConfig |-> [OSImageURL |-> "url-0"],
       machineConfigs   |-> [n \in names |-> FileMachineConfig(n)],
       templateConfigs  |-> EmptyMap] :
          k \in {"1.23", "1.99"}, names \in MachineNameSets }

\* The fillers a caller passes.
Fillers ==
    { [with |-> "WithTinkerbellOSImageURL", arg |-> u] : u \in {"url-1", "url-2"} }
    \cup { [with |-> "WithTinkerbellEtcdMachineConfig", arg |-> ""] }
    \cup { [with |-> "WithCustomTinkerbellMachineConfig", arg |-> s] :
               s \in {"gpu", GetEtcdNodeName(ClusterName)} }
    \cup { [with |-> "WithCustomControlPlaneTemplateConfig", arg |-> ""],
           [with |-> "WithCustomWorkerTemplateConfig", arg |-> ""] }

FillerLists == UNION { [1..n -> Fillers] : n \in 0..MaxFillers }

\* The Get* call that fails, if one does.
LoadFailures == {"none", "datacenter", "machine", "template", "cluster"}

\* A call is made with a file and a list of fillers.
FillerInit ==
    /\ pc = "idle"
    /\ phaseIdx = 1
    /\ invoked = << >>
    /\ clusterSpec = NoSpec
    /\ ret = Out(ZeroResult, NoErr)
    /\ lastOut = Out(ZeroResult, NoErr)
    /\ obs = NoObs
    /\ calls = NoCalls
    /\ env = [username |-> Nil, password |-> Nil, datacenter |-> Nil]
    /\ clientCache = {}
    /\ store = [o \in Objects |-> Absent]
    /\ apply = NoApply
    /\ prev = NoPrev
    /\ registry = NoRegistry
    /\ vmc = NoVmc
    /\ pool = NoPool
    /\ replay = NoReplay
    /\ runner = NoRunner
    /\ infra = NoInfra
    /\ runnerLog = NoRunnerLog
    /\ \E file \in Files, fillers \in FillerLists :
           tink = [NoTink EXCEPT !.file = file, !.fillers = fillers]

\* AutoFillTinkerbellProvider reads the four configs from the file and builds
\* the config the fillers share.
LoadConfig ==
    /\ tink.pc = "start"
    /\ \E failure \in LoadFailures :
          tink' =
              IF failure = "none"
              THEN [tink EXCEPT !.pc = "filling", !.config = tink.file]
              ELSE [tink EXCEPT
                        !.pc = "done",
                        !.out = [bytes |-> << >>,
                                 err |-> Wrap("unable to get tinkerbell " \o failure
                                                  \o " config from file",
                                              Err("read failed"))]]
    /\ UNCHANGED <<passVars, registry, vmc, pool, replay, runnerVars>>

\* Mutant: the error of a filler is not checked.
ApplyFiller_IgnoresError ==
    /\ tink.pc = "filling"
    /\ Len(tink.applied) < Len(tink.fillers)
    /\ LET f == tink.fillers[Len(tink.applied) + 1]
           r == Fill(f, tink.config)
           entry == [filler |-> f,
                     url |-> tink.config.datacenterConfig.OSImageURL,
                     err |-> r.err, panic |-> r.panic]
       IN
       tink' =
           [tink EXCEPT
               !.config  = r.config,
               !.applied = Append(@, entry),
               !.pc      = IF r.panic THEN "panicked" ELSE @]
    /\ UNCHANGED <<passVars, registry, vmc, pool, replay, runnerVars>>

\* One iteration of the loop over the fillers.
ApplyFiller ==
    /\ tink.pc = "filling"
    /\ Len(tink.applied) < Len(tink.fillers)
    /\ LET f == tink.fillers[Len(tink.applied) + 1]
           r == Fill(f, tink.config)
           entry == [filler |-> f,
                     url |-> tink.config.datacenterConfig.OSImageURL,
                     err |-> r.err, panic |-> r.panic]
       IN
       tink' =
           [tink EXCEPT
               !.config  = r.config,
               !.applied = Append(@, entry),
               !.pc      = IF r.panic THEN "panicked"
                           ELSE IF r.err # NoErr THEN "done"
                           ELSE @,
               !.out     = IF ~r.panic /\ r.err # NoErr
                           THEN [bytes |-> << >>,
                                 err |-> Wrap("failed to apply tinkerbell config filler",
                                              r.err)]
                           ELSE @]
    /\ UNCHANGED <<passVars, registry, vmc, pool, replay, runnerVars>>

\* After the last filler: the datacenter config, the machine configs and the
\* template configs are marshalled into the output.
Marshal ==
    /\ tink.pc = "filling"
    /\ Len(tink.applied) = Len(tink.fillers)
    /\ \E marshalErr \in {NoErr, Err("yaml: unsupported value")} :
          tink' =
              [tink EXCEPT
                  !.pc  = "done",
                  !.out = IF marshalErr # NoErr
                          THEN [bytes |-> << >>,
                                err |-> Wrap("marshalling tinkerbell resource",
                                             marshalErr)]
                          ELSE [bytes |-> <<tink.config.datacenterConfig,
                                            tink.config.machineConfigs,
                                            tink.config.templateConfigs>>,
                                err |-> NoErr]]
    /\ UNCHANGED <<passVars, registry, vmc, pool, replay, runnerVars>>

FillerNext ==
    \/ LoadConfig
    \/ ApplyFiller
    \/ Marshal

FillerSpec == FillerInit /\ [][FillerNext]_vars

-----------------------------------------------------------------------------
(* Properties *)

Range(q) == { q[i] : i \in 1..Len(q) }

\* No phase occurs twice in the sequence q.
NoRepeat(q) == \A i, j \in 1..Len(q) : q[i] = q[j] => i = j

\* The message ValidateDatacenterConfig is meant to record for an invalid datacenter.
StoredMessage ==
    IF clusterSpec.DatacenterFailureMessage # Nil
    THEN clusterSpec.DatacenterFailureMessage
    ELSE ""

\* C1: with an invalid datacenter config the pass returns (Result, nil) after
\* ValidateDatacenterConfig alone, with the stored message on the cluster status and
\* none of the later phases invoked.
C1_InvalidDatacenterStopsPass ==
    (clusterSpec.built /\ ~clusterSpec.SpecValid /\ Len(invoked) >= 1) =>
        /\ pc = "done"
        /\ ret.err = NoErr
        /\ ret.Result.Return
        /\ invoked = << "ValidateDatacenterConfig" >>
        /\ clusterSpec.FailureMessage = StoredMessage
        /\ calls = NoCalls

\* C2: when phase k returns a non-nil error the pass has ended with the zero Result
\* and exactly that error, phases 1..k were each invoked once, and no later phase ran.
C2_PhaseErrorAbortsPass ==
    \A k \in 1..Len(Phases) :
        (Len(invoked) = k /\ lastOut.err # NoErr) =>
            /\ pc = "done"
            /\ ret = Out(ZeroResult, lastOut.err)
            /\ invoked = SubSeq(Phases, 1, k)
            /\ NoRepeat(invoked)

\* C2 witness: ReconcileCNI (phase 4) returned a Result together with an error.
C2_Witness ==
    /\ pc = "done"
    /\ Len(invoked) = 4
    /\ lastOut = Out(ResultWithReturn, Err("cni reconcile failed"))
    /\ ret = Out(ZeroResult, Err("cni reconcile failed"))

\* C3: the phases invoked in a pass are always a prefix of the registration order
\* ValidateDatacenterConfig, ValidateMachineConfigs, ReconcileControlPlane,
\* ReconcileCNI, ReconcileWorkers.
C3_RegistrationOrder ==
    /\ Len(invoked) <= 5
    /\ invoked = SubSeq(<< "ValidateDatacenterConfig", "ValidateMachineConfigs",
                           "ReconcileControlPlane", "ReconcileCNI",
                           "ReconcileWorkers" >>, 1, Len(invoked))
    /\ (pc = "running" => phaseIdx = Len(invoked) + 1)

\* C3 witness: a pass that invoked all five phases.
C3_Witness == pc = "done" /\ Len(invoked) = 5

\* C4: when phase k returns a stop-clean Result with nil error the pass has ended
\* with that Result and a nil error, and no phase after k was invoked.
C4_StopCleanEndsPass ==
    \A k \in 1..Len(Phases) :
        (Len(invoked) = k /\ lastOut.Result.Return /\ lastOut.err = NoErr) =>
            /\ pc = "done"
            /\ ret = Out(lastOut.Result, NoErr)
            /\ invoked = SubSeq(Phases, 1, k)

\* C4 witness: the CNI reconciler returned stop-clean with requeue at phase 4.
C4_Witness ==
    /\ pc = "done"
    /\ Len(invoked) = 4
    /\ lastOut = Out(ResultWithRequeue, NoErr)
    /\ ret = Out(ResultWithRequeue, NoErr)

\* C5, state part: after a failed GetClient the pass has ended with that error, the
\* CNI reconciler and ReconcileWorkers (producer, store writes) were not invoked.
C5_AfterGetClientError ==
    obs.getClient = "fail" =>
        /\ pc = "done"
        /\ ret = Out(ZeroResult, Err("remote cluster unreachable"))
        /\ invoked = SubSeq(Phases, 1, 4)
        /\ "ReconcileWorkers" \notin Range(invoked)
        /\ calls.cni = 0
        /\ calls.producer = 0
        /\ calls.writes = 0
        /\ apply = NoApply

\* C5, step part: the ReconcileCNI step whose GetClient fails changes neither the
\* cluster spec (status included) nor the store.
C5_GetClientErrorStep ==
    (obs.getClient = "none" /\ obs'.getClient = "fail") =>
        (clusterSpec' = clusterSpec /\ store' = store /\ env' = env)

\* C5: an unresolvable workload client aborts the pass at ReconcileCNI with the
\* GetClient error, without the CNI reconciler, without ReconcileWorkers, and with
\* the cluster status as it was when ReconcileCNI started.
C5_UnreachableAbortsAtCNI ==
    [] C5_AfterGetClientError /\ [][C5_GetClientErrorStep]_vars

\* C5 witness: the pass ended at ReconcileCNI on a GetClient error, status in place.
C5_Witness ==
    /\ pc = "done"
    /\ obs.getClient = "fail"
    /\ lastOut.err = Err("remote cluster unreachable")
    /\ clusterSpec.FailureMessage = "stale"

\* The pass met no adverse condition: datacenter config valid, credentials set up,
\* validation passed, client resolved, CNI reconciler continued, every object applied.
NothingAdverse ==
    /\ clusterSpec.built
    /\ clusterSpec.SpecValid
    /\ obs.setup # "fail"
    /\ obs.validator # "fail"
    /\ obs.getClient # "fail"
    /\ obs.cniOut = Out(ZeroResult, NoErr)
    /\ obs.producer # "fail"
    /\ apply.faulty = {}

\* C6: a pass that met no adverse condition has invoked all five phases once each,
\* in registration order (every collaborator called once), and returned a continue
\* Result with nil error.
C6_CleanPassRunsAllPhases ==
    (pc = "done" /\ NothingAdverse) =>
        /\ invoked = << "ValidateDatacenterConfig", "ValidateMachineConfigs",
                        "ReconcileControlPlane", "ReconcileCNI", "ReconcileWorkers" >>
        /\ ret = Out(ZeroResult, NoErr)
        /\ calls.validator = 1
        /\ calls.getClient = 1
        /\ calls.cni = 1
        /\ calls.producer = 1
        /\ apply.failed = {}

\* C6 witness: a clean pass with two desired worker objects, both applied.
C6_Witness ==
    /\ pc = "done"
    /\ NothingAdverse
    /\ Len(invoked) = 5
    /\ Cardinality(apply.desired) = 2
    /\ apply.attempted = << 1, 2 >>
    /\ \A d \in apply.desired : store[d[1]].content = d[2]

\* C7, state part: after a failed BuildSpec the pass has ended with the zero Result
\* and that error, and no phase or collaborator was invoked.
C7_AfterBuildSpecError ==
    obs.build = "fail" =>
        /\ pc = "done"
        /\ ret = Out(ZeroResult, Err("build spec failed"))
        /\ invoked = << >>
        /\ calls = NoCalls
        /\ apply = NoApply
        /\ ~clusterSpec.built

\* C7, step part: the Reconcile step whose BuildSpec fails writes neither the
\* environment nor the registry nor the store.
C7_BuildSpecErrorStep ==
    (obs'.build = "fail" /\ <<pc, obs, invoked, ret, clusterSpec>>' #
                             <<pc, obs, invoked, ret, clusterSpec>>) =>
        (env' = env /\ clientCache' = clientCache /\ store' = store)

\* C7: when BuildSpec fails, Reconcile returns the zero Result with that error and no
\* registered phase runs: no status mutation, no environment write, no registry
\* lookup, no store write.
C7_BuildSpecErrorRunsNoPhase ==
    [] C7_AfterBuildSpecError /\ [][C7_BuildSpecErrorStep]_vars

\* C7 witness: a pass that ended on a BuildSpec error after an earlier pass had set
\* the environment and applied objects.
C7_Witness ==
    /\ pc = "done"
    /\ obs.build = "fail"
    /\ env.username = "admin"
    /\ \E o \in Objects : store[o].content # 0

\* C8: when the validator rejects the machine configs, the cluster status failure
\* message is the validation error's message, the pass has ended with that same
\* error, and ReconcileControlPlane, ReconcileCNI and ReconcileWorkers did not run.
C8_ValidationFailureRecordedAndReturned ==
    obs.validator = "fail" =>
        /\ pc = "done"
        /\ ret = Out(ZeroResult, Err("machine config invalid"))
        /\ clusterSpec.FailureMessage = ret.err.msg
        /\ invoked = << "ValidateDatacenterConfig", "ValidateMachineConfigs" >>
        /\ calls.getClient = 0
        /\ calls.cni = 0
        /\ calls.producer = 0

\* C8 witness: a pass that ended on a machine-config validation failure.
C8_Witness ==
    /\ pc = "done"
    /\ obs.validator = "fail"
    /\ clusterSpec.FailureMessage = "machine config invalid"
    /\ calls.validator = 1

\* The names of the objects of a desired set.
Names(desired) == { d[1] : d \in desired }

\* C9: one Apply call attempts every object of the desired set exactly once whatever
\* the outcomes of the others, and returns a non-nil error exactly when some object
\* failed; the error refers to each failed object.
C9_ApplyAttemptsAllAndAggregates ==
    (pc = "done" /\ apply.produced) =>
        /\ Range(apply.attempted) = Names(apply.desired)
        /\ NoRepeat(apply.attempted)
        /\ apply.failed = apply.faulty
        /\ (lastOut.err # NoErr <=> apply.faulty # {})
        /\ lastOut.err.objs = apply.faulty
        /\ ret.err = lastOut.err

\* C9 witness: the first of two desired objects failed, the second was still
\* attempted and applied, and the error refers to the first.
C9_Witness ==
    /\ pc = "done"
    /\ apply.produced
    /\ apply.attempted = << 1, 2 >>
    /\ apply.faulty = {1}
    /\ lastOut.err.objs = {1}
    /\ store[2].content # 0
    /\ store[1].content = 0

\* C10 as stated: an Apply call whose producer returns the same desired set as the
\* previous call, no other writer in between, issues no store write and leaves the
\* store as it was.
C10_RepeatedApplyIsNoOp ==
    apply.repeat # "none" => (apply.writes = 0 /\ ~apply.changed)

\* C10 amended: an Apply call whose producer returns the same desired set as the
\* previous call, when that call returned no error and no other writer changed the
\* store in between, issues no store write and leaves the store as it was.
C10_RepeatedApplyAfterCleanIsNoOp ==
    apply.repeat = "clean" => (apply.writes = 0 /\ calls.writes = 0 /\ ~apply.changed)

\* C10 witness: a non-empty desired set re-applied after a call without failures.
C10_Witness ==
    /\ pc = "done"
    /\ apply.repeat = "clean"
    /\ Cardinality(apply.desired) = 2
    /\ apply.attempted = << 1, 2 >>

\* The step in which this pass calls GetClient.
GetClientStep == calls.getClient = 0 /\ calls'.getClient = 1

\* C11: a GetClient call for an identity whose client an earlier call resolved, with
\* no invalidation since (the registry still holds it), succeeds with the cached
\* client: nothing is constructed, no credentials are fetched, the cache is as it was.
C11_CacheHit ==
    [][ (GetClientStep /\ ClusterKey \in clientCache) =>
            /\ obs'.getClient = "ok"
            /\ ~obs'.constructed
            /\ clientCache' = clientCache ]_vars

\* C11 witness: a pass whose GetClient was answered from the cache.
C11_Witness ==
    /\ pc = "done"
    /\ calls.getClient = 1
    /\ obs.getClient = "ok"
    /\ ~obs.constructed
    /\ obs.reachable = "none"

\* C13: in the pass after one that ended on a GetClient error, a reachable workload
\* control plane lets GetClient succeed, the CNI reconciler is invoked, and when it
\* continues the pass goes on to ReconcileWorkers.
C13_RetryAfterUnreachable ==
    (obs.retry /\ obs.reachable = "yes") =>
        /\ obs.getClient = "ok"
        /\ calls.cni = 1
        /\ obs.cniOut = Out(ZeroResult, NoErr) =>
              (pc = "running" /\ Phases[phaseIdx] = "ReconcileWorkers")

\* C13 witness: the pass after a GetClient failure resolved a new client, the CNI
\* reconciler continued and Run is about to invoke ReconcileWorkers.
C13_Witness ==
    /\ pc = "running"
    /\ obs.retry
    /\ obs.reachable = "yes"
    /\ obs.constructed
    /\ invoked[Len(invoked)] = "ReconcileCNI"
    /\ Phases[phaseIdx] = "ReconcileWorkers"

-----------------------------------------------------------------------------
(* No internal retry *)

\* C16: within one pass no phase is invoked twice, a phase that returned an error is
\* the last one invoked, at most Len(Phases) invocations happen, each collaborator
\* is called at most once, and the pass has ended once the last phase returned.
C16_NoInternalRetry ==
    /\ NoRepeat(invoked)
    /\ Len(invoked) <= Len(Phases)
    /\ pc = "running" => phaseIdx = Len(invoked) + 1 /\ phaseIdx <= Len(Phases)
    /\ (Len(invoked) > 0 /\ lastOut.err # NoErr) => pc = "done"
    /\ Len(invoked) = Len(Phases) => pc = "done"
    /\ calls.validator <= 1 /\ calls.getClient <= 1 /\ calls.cni <= 1
    /\ calls.producer <= 1

\* C16 witness: the validator failed at phase 2 and the pass ended there, the
\* validator having been called once.
C16_Witness ==
    /\ pc = "done"
    /\ invoked = << "ValidateDatacenterConfig", "ValidateMachineConfigs" >>
    /\ obs.validator = "fail"
    /\ calls.validator = 1
    /\ ret.err # NoErr

-----------------------------------------------------------------------------
(* Partial failure of Apply *)

\* C18: after an Apply call (no other writer since), every desired object whose
\* attempt did not fail is in the store with its desired content even when other
\* objects of the batch failed, exactly the faulty objects are reported; and an
\* Apply of the same desired set after a failed one, with the fault gone, leaves
\* the store holding the full desired set and returns no error.
C18_NoRollbackAndLaterApplyCompletes ==
    (apply.produced /\ prev.known) =>
        /\ \A d \in apply.desired :
              d[1] \notin apply.faulty => store[d[1]].content = d[2]
        /\ apply.failed = apply.faulty
        /\ (apply.repeat = "failed" /\ apply.faulty = {}) =>
              /\ \A d \in apply.desired : store[d[1]].content = d[2]
              /\ lastOut.err = NoErr

\* C18 witness: an Apply of two objects after one that failed on one of them, with
\* the fault gone: the one write issued is for the object that had failed, the other
\* object was still in place.
C18_Witness ==
    /\ apply.produced /\ prev.known
    /\ apply.repeat = "failed"
    /\ apply.faulty = {}
    /\ Cardinality(apply.desired) = 2
    /\ apply.writes = 1
    /\ apply.changed

-----------------------------------------------------------------------------
(* The desired set is recomputed by every Apply *)

\* C20: a pass calls the producer exactly once when it invokes ReconcileWorkers and
\* never otherwise, store writes happen only after that call, a producer error means
\* no attempt and no write, and the objects attempted and (no other writer since)
\* stored are those the producer returned in this pass, also when it returned
\* another set in the pass before.
C20_ProducerRecomputedEachApply ==
    /\ calls.producer = (IF "ReconcileWorkers" \in Range(invoked) THEN 1 ELSE 0)
    /\ calls.producer = 0 => calls.writes = 0
    /\ obs.producer = "fail" => apply.attempted = << >> /\ calls.writes = 0
    /\ apply.produced =>
          /\ Range(apply.attempted) = Names(apply.desired)
          /\ prev.known =>
                /\ prev.desired = apply.desired
                /\ \A d \in apply.desired :
                      d[1] \notin apply.faulty => store[d[1]].content = d[2]

\* C20 witness: the producer returned another non-empty set than in the pass before
\* and this pass wrote it to the store.
C20_Witness ==
    /\ apply.produced /\ prev.known
    /\ apply.differs
    /\ apply.desired # {}
    /\ apply.faulty = {}
    /\ apply.changed

-----------------------------------------------------------------------------
(* Concurrent calls for distinct identities *)

\* C12: while a caller is fetching the credentials of one identity (a fetch that may
\* never return), a call for another identity that no caller is fetching can begin,
\* and a call that is fetching that other identity can return.
C12_DistinctIdentitiesNotSerialized ==
    \A a \in Callers, b \in Callers, id \in Identities :
        ( /\ a # b
          /\ registry.call[a].pc = "fetching"
          /\ registry.call[a].id # id
          /\ id \notin Fetching(registry, b) ) =>
            /\ registry.call[b].pc = "idle" => ENABLED CallGetClient(b, id)
            /\ (registry.call[b].pc = "fetching" /\ registry.call[b].id = id) =>
                  ENABLED FetchReturns(b)

\* C12 witness: a call that began while another caller was fetching another identity
\* has constructed its client and returned, that other fetch still being in flight.
C12_Witness ==
    \E a \in Callers, b \in Callers :
        /\ a # b
        /\ registry.call[a].pc = "fetching"
        /\ registry.call[b].pc = "returned"
        /\ registry.call[b].constructed
        /\ registry.call[b].id # registry.call[a].id
        /\ registry.call[a].id \in registry.call[b].during

-----------------------------------------------------------------------------
(* Fields of other writers *)

\* The step of an Apply call that attempted objects.
ApplyStep == apply'.produced

\* C19: an Apply call leaves the unmanaged field of every object as it was, whether
\* it creates the object, updates it, fails on it or does not touch it; the content
\* of an object it does not name is as it was, too.
C19_ApplyKeepsOtherFields ==
    [][ ApplyStep =>
          /\ \A o \in Objects : store'[o].other = store[o].other
          /\ \A o \in Objects \ Names(apply'.desired) : store'[o] = store[o] ]_vars

\* C19 witness: an Apply call has just updated the content of an object on which
\* another writer had set its field.
C19_Witness ==
    /\ apply.produced
    /\ apply.changed
    /\ Cardinality(apply.desired) = 1
    /\ \E d \in apply.desired :
          /\ store[d[1]].content = d[2]
          /\ store[d[1]].other # 0

-----------------------------------------------------------------------------
(* The process environment under concurrent passes *)

\* C15: the environment a pass's validator call sees holds the credentials that
\* pass read and the datacenter settings of its own cluster unless the pass of
\* another cluster wrote the environment after this pass began writing it; with
\* such a write it can hold the other cluster's datacenter settings.
C15_ValidatorSeesOwnEnvUnlessRaced ==
    \A c \in Identities :
        vmc[c].pc = "validated" =>
            \/ vmc[c].seen = [username |-> vmc[c].secret.username,
                              password |-> vmc[c].secret.password,
                              datacenter |-> DatacenterOf[c]]
            \/ /\ vmc[c].interfered
               /\ \E d \in Identities \ {c} :
                     vmc[c].seen.datacenter \in {DatacenterOf[c], DatacenterOf[d]}

\* C15 witness: the validator call of cluster A's pass ran while the environment
\* held the datacenter settings written by cluster B's pass.
C15_Witness ==
    /\ vmc["A"].pc = "validated"
    /\ vmc["A"].seen.datacenter = DatacenterOf["B"]
    /\ vmc["A"].interfered
    /\ vmc["B"].pc \in {"set", "validated"}

-----------------------------------------------------------------------------
(* Aggregation of failures under concurrent attempts *)

\* C17: at every moment the failure list holds at most one record per object and
\* only for objects whose attempt failed; when Apply has returned every attempt had
\* completed, the list holds exactly the objects whose attempt failed, and the error
\* returned names exactly those (no error when none failed).
C17_FailuresAggregatedWithoutCorruption ==
    /\ NoRepeat(pool.failures)
    /\ Range(pool.failures) \subseteq pool.faults
    /\ \A o \in pool.batch :
          pool.task[o] = "done" => (o \in Range(pool.failures) <=> o \in pool.faults)
    /\ pool.returned =>
          /\ \A o \in pool.batch : pool.task[o] = "done"
          /\ Range(pool.failures) = pool.faults
          /\ pool.err = Aggregate(pool.failures)
          /\ (pool.err = NoErr) <=> (pool.faults = {})

\* C17 witness: Apply has returned with the records of two failed attempts, added
\* in the order opposite to the objects' order, and none for the third object,
\* whose attempt succeeded.
C17_Witness ==
    /\ pool.returned
    /\ pool.batch = {1, 2, 3}
    /\ pool.failures = << 2, 1 >>
    /\ pool.err.objs = {1, 2}

-----------------------------------------------------------------------------
(* Convergence of repeated passes *)

\* C14: with every collaborator answering as in the first pass and no other writer,
\* a later full pass returns the Result and error of the first, invokes the same
\* phases, leaves the same failure messages on the cluster spec and the store as
\* the first pass left it, and issues no more store writes than the first: none at
\* all when no object failed in the first.
C14_RepeatedPassConverges ==
    (replay.pass >= 2 /\ pc = "done") =>
        /\ ret = replay.first.ret
        /\ invoked = replay.first.invoked
        /\ clusterSpec.FailureMessage = replay.first.FailureMessage
        /\ clusterSpec.DatacenterFailureMessage = replay.first.DatacenterFailureMessage
        /\ store = replay.first.store
        /\ calls.writes <= replay.first.writes
        /\ replay.first.failed = {} => calls.writes = 0

\* C14 witness: the first pass ran all five phases and wrote worker objects, the
\* second pass over the same inputs has ended with the same return value and wrote
\* nothing.
C14_Witness ==
    /\ replay.pass = 2
    /\ pc = "done"
    /\ Len(invoked) = 5
    /\ replay.first.writes > 0
    /\ replay.first.failed = {}
    /\ calls.writes = 0
    /\ ret = Out(ZeroResult, NoErr)

-----------------------------------------------------------------------------
(* Delegation to the CNI reconciler *)

\* C21: after a successful GetClient the CNI reconciler has been called exactly once,
\* with the client GetClient resolved, and the phase returned what it returned; an
\* error ended the pass with that error, a stop-clean Result ended it with that
\* Result, in both cases without ReconcileWorkers and its producer; otherwise the
\* pass went on to ReconcileWorkers.
C21_CNIDelegation ==
    (Len(invoked) >= 4 /\ obs.getClient = "ok") =>
        /\ calls.cni = 1
        /\ obs.cniClient = ClusterKey
        /\ Len(invoked) = 4 => lastOut = obs.cniOut
        /\ obs.cniOut.err # NoErr =>
              /\ pc = "done" /\ Len(invoked) = 4
              /\ ret = Out(ZeroResult, obs.cniOut.err)
              /\ calls.producer = 0
        /\ (obs.cniOut.err = NoErr /\ obs.cniOut.Result.Return) =>
              /\ pc = "done" /\ Len(invoked) = 4
              /\ ret = Out(obs.cniOut.Result, NoErr)
              /\ calls.producer = 0
        /\ (obs.cniOut.err = NoErr /\ ~obs.cniOut.Result.Return) =>
              \/ pc = "running" /\ Phases[phaseIdx] = "ReconcileWorkers"
              \/ invoked[Len(invoked)] = "ReconcileWorkers"

\* C21 witness: the CNI reconciler, called with the resolved client, returned a
\* Result together with an error and the pass ended with that error.
C21_Witness ==
    /\ pc = "done"
    /\ obs.getClient = "ok"
    /\ obs.cniClient = ClusterKey
    /\ obs.cniOut = Out(ResultWithReturn, Err("cni reconcile failed"))
    /\ lastOut = obs.cniOut
    /\ ret = Out(ZeroResult, Err("cni reconcile failed"))

-----------------------------------------------------------------------------
(* The spec snapshot of a pass *)

\* The step in which a phase other than the first is invoked.
LaterPhaseStep == Len(invoked) >= 1 /\ Len(invoked') = Len(invoked) + 1

\* The step in which Reconcile built a spec and handed it to Run.
BuiltStep == pc # "running" /\ pc' = "running"

\* C22: a phase after the first receives the spec as the phase before left it: it
\* leaves it as it is or (the validator having failed) changes the failure message
\* alone; the first phase keeps all but the failure message; and the spec a new pass
\* starts from is the one BuildSpec built, whose failure message is not one a phase
\* of an earlier pass set.
C22_OneSpecSnapshotPerPass ==
    [][ /\ LaterPhaseStep =>
              \/ clusterSpec' = clusterSpec
              \/ /\ obs'.validator = "fail"
                 /\ Len(invoked') = 2
                 /\ clusterSpec' = [clusterSpec EXCEPT
                                       !.FailureMessage = "machine config invalid"]
        /\ (Len(invoked) = 0 /\ Len(invoked') = 1) =>
              [clusterSpec' EXCEPT !.FailureMessage = Nil]
                  = [clusterSpec EXCEPT !.FailureMessage = Nil]
        /\ BuiltStep =>
              /\ clusterSpec'.built
              /\ clusterSpec'.FailureMessage \in {Nil, "stale"} ]_vars

\* C22 witness: the failure message ValidateDatacenterConfig set is on the spec
\* ValidateMachineConfigs was invoked with and has left unchanged.
C22_Witness ==
    /\ Len(invoked) = 2
    /\ ~clusterSpec.SpecValid
    /\ clusterSpec.FailureMessage = "datacenter invalid"
    /\ obs.validator = "ok"

-----------------------------------------------------------------------------
(* ValidateDatacenterConfig *)

\* The step in which ValidateDatacenterConfig is invoked.
ValidateDatacenterConfigStep == Len(invoked) = 0 /\ Len(invoked') = 1

\* C23: with a valid datacenter config ValidateDatacenterConfig returns the zero
\* (continue) Result and no error and leaves the spec, the cluster's failure message
\* included, as it was; the pass goes on to ValidateMachineConfigs.
C23_ValidDatacenterContinues ==
    [][ (ValidateDatacenterConfigStep /\ clusterSpec.SpecValid) =>
            /\ lastOut' = Out(ZeroResult, NoErr)
            /\ clusterSpec' = clusterSpec
            /\ pc' = "running"
            /\ Phases[phaseIdx'] = "ValidateMachineConfigs" ]_vars

\* C23 witness: ValidateDatacenterConfig has returned for a valid datacenter config
\* and the message the cluster held before is still there.
C23_Witness ==
    /\ invoked = << "ValidateDatacenterConfig" >>
    /\ clusterSpec.SpecValid
    /\ clusterSpec.FailureMessage = "stale"
    /\ pc = "running"

\* C27: with an invalid datacenter config that carries no failure message,
\* ValidateDatacenterConfig sets the cluster's failure message to the present empty
\* string, whatever it was before, changes nothing else and returns no error.
C27_InvalidWithoutMessageSetsEmpty ==
    [][ ( /\ ValidateDatacenterConfigStep
          /\ ~clusterSpec.SpecValid
          /\ clusterSpec.DatacenterFailureMessage = Nil ) =>
            /\ clusterSpec' = [clusterSpec EXCEPT !.FailureMessage = ""]
            /\ clusterSpec'.FailureMessage # Nil
            /\ lastOut'.err = NoErr ]_vars

\* C27 witness: ValidateDatacenterConfig has returned for an invalid datacenter
\* config without message and the cluster's failure message is the empty string.
C27_Witness ==
    /\ invoked = << "ValidateDatacenterConfig" >>
    /\ ~clusterSpec.SpecValid
    /\ clusterSpec.DatacenterFailureMessage = Nil
    /\ clusterSpec.FailureMessage = ""
    /\ lastOut.err = NoErr

-----------------------------------------------------------------------------
(* ReconcileControlPlane *)

\* The step in which ReconcileControlPlane is invoked.
ReconcileControlPlaneStep ==
    /\ Len(invoked') = Len(invoked) + 1
    /\ invoked'[Len(invoked')] = "ReconcileControlPlane"

-----------------------------------------------------------------------------
(* The environment writes of SetupEnvVars *)

\* The step in which ValidateMachineConfigs is invoked.
ValidateMachineConfigsStep ==
    /\ Len(invoked') = Len(invoked) + 1
    /\ invoked'[Len(invoked')] = "ValidateMachineConfigs"

\* C25: SetupEnvVars writes username, password and the datacenter-derived variables
\* in that order and stops at the first failure, the variables written before it
\* keeping their new values: a failed read of the secret or write of the username
\* leaves the environment as it was, a failed write of the password leaves the new
\* username, a failed vsphere.SetupEnvVars the new username and password; and no
\* other step of a pass, nor the start of the next pass, changes the environment.
C25_EnvWritesNotUndone ==
    [][ /\ ValidateMachineConfigsStep =>
              LET m == lastOut'.err.msg IN
              /\ m = "failed getting vsphere credentials secret: secret not found" =>
                    env' = env
              /\ m = "failed setting env EKSA_VSPHERE_USERNAME: setenv: invalid argument"
                    => env' = env
              /\ m = "failed setting env EKSA_VSPHERE_PASSWORD: setenv: invalid argument"
                    => env' = [env EXCEPT !.username = "admin"]
              /\ m = "failed setting env vars: setenv: invalid argument" =>
                    env' = [env EXCEPT !.username = "admin", !.password = "secret"]
              /\ obs'.setup = "ok" =>
                    env' = [username |-> "admin", password |-> "secret",
                            datacenter |-> Datacenter]
              /\ obs'.setup = "fail" <=> calls'.validator = 0
        /\ ~ValidateMachineConfigsStep => env' = env ]_vars

\* C25 witness: the pass ended on a failed write of the password, the username
\* written before it is in the environment, and nothing else was ever written.
C25_Witness ==
    /\ pc = "done"
    /\ Len(invoked) = 2
    /\ lastOut.err.msg
          = "failed setting env EKSA_VSPHERE_PASSWORD: setenv: invalid argument"
    /\ env = [username |-> "admin", password |-> Nil, datacenter |-> Nil]

-----------------------------------------------------------------------------
(* Failure to set up the environment *)

\* C26: when SetupEnvVars fails, ValidateMachineConfigs returns its error without
\* calling the validator and leaves the spec, the cluster's failure message
\* included, as it was, and the pass ends with that error; the phase changes the
\* failure message only when the validator was called and failed.
C26_SetupFailureSkipsValidator ==
    [][ ValidateMachineConfigsStep =>
            /\ obs'.setup = "fail" =>
                  /\ calls'.validator = 0
                  /\ obs'.validator = "none"
                  /\ clusterSpec' = clusterSpec
                  /\ lastOut'.err # NoErr
                  /\ lastOut'.err.msg # "machine config invalid"
                  /\ pc' = "done"
                  /\ ret' = Out(ZeroResult, lastOut'.err)
            /\ clusterSpec' # clusterSpec =>
                  /\ obs'.validator = "fail"
                  /\ calls'.validator = 1 ]_vars

\* C26 witness: the pass ended because the credentials secret could not be read, the
\* validator was not called and the cluster's earlier message is still there.
C26_Witness ==
    /\ pc = "done"
    /\ Len(invoked) = 2
    /\ obs.setup = "fail"
    /\ calls.validator = 0
    /\ clusterSpec.FailureMessage = "stale"
    /\ ret.err.msg = "failed getting vsphere credentials secret: secret not found"

-----------------------------------------------------------------------------
(* decommInstance of the test runner *)

\* The first of the three cleanup errors in the order deregister, deactivate, delete.
FirstFinding(f) ==
    IF f.deregister # NoErr THEN f.deregister
    ELSE IF f.deactivate # NoErr THEN f.deactivate
    ELSE f.rmVms

\* C28: decommInstance makes all three cleanup calls (DeregisterInstance with the
\* recorded InstanceID, DeleteActivation with the recorded ActivationId, the
\* removal of the runner VM) whatever each of them returns; it returns nil
\* exactly when none of the three failed, and otherwise the wrapped error of the
\* first failed one in the order deregister, deactivate, delete.
C28_DecommAttemptsAllReportsFirst ==
    runnerLog.op = "decommInstance" =>
        /\ runnerLog.attempted.deregister = runnerLog.before.InstanceID
        /\ runnerLog.attempted.deactivate = runnerLog.before.ActivationId
        /\ runnerLog.attempted.rmVms = TestRunnerName
        /\ (runnerLog.err = NoErr) <=> (runnerLog.findings = NoFindings)
        /\ runnerLog.err # NoErr =>
               runnerLog.err =
                   Wrap("failed to decommission vsphere test runner ssm instance",
                        FirstFinding(runnerLog.findings))

\* A decommInstance call whose DeleteActivation and VM removal both failed after
\* the deregistration succeeded: all three were called, the deactivation error
\* is the one returned.
C28_Witness ==
    /\ runnerLog.op = "decommInstance"
    /\ runnerLog.findings.deregister = NoErr
    /\ runnerLog.findings.deactivate # NoErr
    /\ runnerLog.findings.rmVms # NoErr
    /\ runnerLog.attempted.rmVms = TestRunnerName
    /\ runnerLog.err =
           Wrap("failed to decommission vsphere test runner ssm instance",
                runnerLog.findings.deactivate)

-----------------------------------------------------------------------------
(* createInstance of the test runner *)

\* Every step of the latest createInstance call succeeded: the environment was
\* set, the activation created, the template deployed and the instance found.
EveryStepSucceeded ==
    /\ setEnvironment(runnerLog.before, NoInfra.govc,
                      runnerLog.inputs.user, runnerLog.inputs.pass).err = NoErr
    /\ runnerLog.inputs.activationErr = NoErr
    /\ runnerLog.inputs.deployErr = NoErr
    /\ WaitForInstance(runnerLog.inputs.failures).err = NoErr

\* C29: createInstance records InstanceID and ActivationId only when every step
\* succeeded, and then returns the recorded InstanceID with no error; when a
\* step failed it returns the empty id with an error and both recorded fields
\* are what they were before the call.
C29_CreateRecordsOnlyOnSuccess ==
    runnerLog.op = "createInstance" =>
        IF EveryStepSucceeded
        THEN /\ runnerLog.err = NoErr
             /\ runnerLog.id # ""
             /\ runnerLog.id = runner.InstanceID
             /\ runner.ActivationId \in infra.activations
             /\ runner.InstanceID = InstanceIdOf(runner.ActivationId)
        ELSE /\ runnerLog.err # NoErr
             /\ runnerLog.id = ""
             /\ runner.InstanceID = runnerLog.before.InstanceID
             /\ runner.ActivationId = runnerLog.before.ActivationId

\* A createInstance call that failed waiting for the SSM instance, after an
\* earlier call had recorded ids: it returned "" with an error and the ids of
\* the earlier call are still the recorded ones.
C29_Witness ==
    /\ runnerLog.op = "createInstance"
    /\ runnerLog.inputs.activationErr = NoErr
    /\ runnerLog.inputs.deployErr = NoErr
    /\ WaitForInstance(runnerLog.inputs.failures).err # NoErr
    /\ runnerLog.err # NoErr
    /\ runnerLog.id = ""
    /\ runnerLog.before.InstanceID # ""
    /\ runner.InstanceID = runnerLog.before.InstanceID
    /\ runner.ActivationId = runnerLog.before.ActivationId
    /\ Cardinality(infra.activations) = 2

-----------------------------------------------------------------------------
(* Activations of failed createInstance calls *)

\* C30: an activation created by a createInstance call that then failed (the
\* template was not deployed, or the instance never appeared) is never the
\* recorded ActivationId; a decommInstance call passes the ids recorded before
\* that call (empty when no call succeeded) to DeleteActivation and
\* DeregisterInstance, never the id of such an activation; and the activation
\* exists in every later state, whatever the runner's calls do.
C30_FailedCreateLeaksActivation ==
    /\ runner.ActivationId \notin runnerLog.orphaned
    /\ runnerLog.orphaned \subseteq infra.activations
    /\ runnerLog.op = "decommInstance" =>
           /\ runnerLog.attempted.deactivate = runner.ActivationId
           /\ runnerLog.attempted.deregister = runner.InstanceID
           /\ runnerLog.attempted.deactivate \notin runnerLog.orphaned
           /\ \A a \in runnerLog.orphaned :
                  runnerLog.attempted.deregister # InstanceIdOf(a)
           /\ Cardinality(runnerLog.orphaned) = infra.created =>
                  /\ runnerLog.attempted.deactivate = ""
                  /\ runnerLog.attempted.deregister = ""

\* A decommInstance call after a createInstance call that failed past the
\* creation of its activation, on a runner with nothing recorded: every cleanup
\* call returned no error, DeleteActivation was called with the empty id, and
\* the activation still exists.
C30_Witness ==
    /\ runnerLog.op = "decommInstance"
    /\ runnerLog.orphaned # {}
    /\ runnerLog.err = NoErr
    /\ runnerLog.attempted.deactivate = ""
    /\ runnerLog.attempted.deregister = ""
    /\ runnerLog.orphaned \subseteq infra.activations

-----------------------------------------------------------------------------
(* The wait of createInstance for the SSM instance *)

\* The latest createInstance call deployed the template, so it went on to poll.
TemplateDeployed ==
    /\ runnerLog.op = "createInstance"
    /\ setEnvironment(runnerLog.before, NoInfra.govc,
                      runnerLog.inputs.user, runnerLog.inputs.pass).err = NoErr
    /\ runnerLog.inputs.activationErr = NoErr
    /\ runnerLog.inputs.deployErr = NoErr

\* C31: a createInstance call that deployed the template looks the SSM instance
\* up at least once and at most 10 times.  When one of the first 10 lookups
\* finds the instance, that lookup is the last one made and the call records and
\* returns that instance; when the first 10 lookups all fail, the call has made
\* exactly 10, returns "" with an error and records no instance id.  A call
\* that did not deploy the template makes no lookup.
C31_PollsAtMostTenTimes ==
    runnerLog.op = "createInstance" =>
        IF TemplateDeployed
        THEN /\ runnerLog.polls \in 1..10
             /\ runnerLog.inputs.failures < 10 =>
                    /\ runnerLog.polls = runnerLog.inputs.failures + 1
                    /\ runnerLog.err = NoErr
                    /\ runnerLog.id # ""
                    /\ runnerLog.id \in infra.instances
                    /\ runner.InstanceID = runnerLog.id
             /\ runnerLog.inputs.failures >= 10 =>
                    /\ runnerLog.polls = 10
                    /\ runnerLog.err # NoErr
                    /\ runnerLog.id = ""
                    /\ runner.InstanceID = runnerLog.before.InstanceID
        ELSE runnerLog.polls = 0

\* A createInstance call on a runner with nothing recorded whose lookups would
\* have found the instance at the eleventh attempt: it made 10, returned an
\* error and recorded nothing.
C31_Witness ==
    /\ TemplateDeployed
    /\ runnerLog.inputs.failures = 10
    /\ runnerLog.polls = 10
    /\ runnerLog.err # NoErr
    /\ runnerLog.before.InstanceID = ""
    /\ runner.InstanceID = ""

-----------------------------------------------------------------------------
(* The loop of AutoFillTinkerbellProvider over its fillers *)

RECURSIVE FillAll(_, _)
\* The config after the fillers fs were applied to config one after the other.
FillAll(config, fs) ==
    IF fs = << >> THEN config
    ELSE FillAll(Fill(Head(fs), config).config, Tail(fs))

\* C32: the fillers applied so far are the first of those given, in the order
\* given, each handed the config as its predecessor left it.  Once a filler has
\* returned an error no further filler is applied and the call has returned no
\* bytes and an error that wraps it; bytes are returned only after every filler
\* given was applied and returned nil.
C32_FillersInOrderStopAtFirstError ==
    /\ Len(tink.applied) <= Len(tink.fillers)
    /\ \A i \in 1..Len(tink.applied) : tink.applied[i].filler = tink.fillers[i]
    /\ tink.pc # "start" /\ tink.applied # << >> =>
           tink.config = FillAll(tink.file, SubSeq(tink.fillers, 1, Len(tink.applied)))
    /\ \A i \in 1..Len(tink.applied) :
           tink.applied[i].err # NoErr =>
               /\ i = Len(tink.applied)
               /\ tink.pc = "done"
               /\ tink.out.bytes = << >>
               /\ tink.out.err = Wrap("failed to apply tinkerbell config filler",
                                      tink.applied[i].err)
    /\ tink.out.bytes # << >> =>
           /\ tink.out.err = NoErr
           /\ Len(tink.applied) = Len(tink.fillers)
           /\ \A i \in 1..Len(tink.applied) :
                  tink.applied[i].err = NoErr /\ ~tink.applied[i].panic

\* A call given three fillers whose second returned an error: the first two
\* were applied, the third was not, and the call returned the wrapped error
\* without bytes.
C32_Witness ==
    /\ tink.pc = "done"
    /\ Len(tink.fillers) = 3
    /\ Len(tink.applied) = 2
    /\ tink.applied[1].err = NoErr
    /\ tink.applied[2].err # NoErr
    /\ tink.out.bytes = << >>
    /\ tink.out.err = Wrap("failed to apply tinkerbell config filler",
                           tink.applied[2].err)

-----------------------------------------------------------------------------
(* Fillers that add a machine config *)

\* The filler the next iteration of the loop applies.
NextFiller == tink.fillers[Len(tink.applied) + 1]

\* The name under which a machine-config filler stores its machine config.
TargetName(f) ==
    IF f.with = "WithTinkerbellEtcdMachineConfig"
    THEN GetEtcdNodeName(tink.config.clusterConfig.Name)
    ELSE f.arg

\* An iteration that applies WithTinkerbellEtcdMachineConfig or
\* WithCustomTinkerbellMachineConfig.
MachineConfigFillerStep ==
    /\ tink.pc = "filling"
    /\ Len(tink'.applied) = Len(tink.applied) + 1
    /\ NextFiller.with \in {"WithTinkerbellEtcdMachineConfig",
                            "WithCustomTinkerbellMachineConfig"}

\* C33: WithTinkerbellEtcdMachineConfig and WithCustomTinkerbellMachineConfig
\* return nil and change nothing but the machine config map, to which they add
\* a config named after their target only when the map has none of that name:
\* every config the map held, the one of the target name included, is unchanged,
\* and applying the filler once more to the result changes nothing.
C33_MachineConfigAddedOnlyWhenAbsent ==
    [][MachineConfigFillerStep =>
           LET f    == NextFiller
               name == TargetName(f)
               old  == tink.config.machineConfigs
               new  == tink'.config.machineConfigs
           IN
           /\ tink'.applied[Len(tink'.applied)].err = NoErr
           /\ DOMAIN new = DOMAIN old \cup {name}
           /\ \A n \in DOMAIN old : new[n] = old[n]
           /\ name \notin DOMAIN old =>
                  new[name].Name = name /\ new[name] # FileMachineConfig(name)
           /\ tink'.config.datacenterConfig = tink.config.datacenterConfig
           /\ tink'.config.templateConfigs = tink.config.templateConfigs
           /\ tink'.config.clusterConfig = tink.config.clusterConfig
           /\ Fill(f, tink'.config).config = tink'.config
      ]_vars

\* WithCustomTinkerbellMachineConfig for the etcd name was applied after
\* WithTinkerbellEtcdMachineConfig to a file without an etcd machine config: the
\* config the first filler added is the one the map holds.
C33_Witness ==
    /\ Len(tink.applied) = 2
    /\ tink.applied[1].filler.with = "WithTinkerbellEtcdMachineConfig"
    /\ tink.applied[2].filler =
           [with |-> "WithCustomTinkerbellMachineConfig",
            arg |-> GetEtcdNodeName(ClusterName)]
    /\ GetEtcdNodeName(ClusterName) \notin DOMAIN tink.file.machineConfigs
    /\ tink.config.machineConfigs[GetEtcdNodeName(ClusterName)].HardwareSelector
           = ExternalEtcd
    /\ tink.config = Fill(tink.applied[1].filler, tink.file).config

-----------------------------------------------------------------------------
(* The OS image URL of generated templates *)

TemplateFillers ==
    {"WithCustomControlPlaneTemplateConfig", "WithCustomWorkerTemplateConfig"}

\* The name of the template, and of the machine config, a template filler writes.
TemplateName(with) ==
    IF with = "WithCustomControlPlaneTemplateConfig"
    THEN GetControlPlaneNodeName(ClusterName)
    ELSE ClusterName

\* No filler made by the same constructor was applied after the i-th.
LastOfItsKind(i) ==
    \A j \in (i + 1)..Len(tink.applied) :
        tink.applied[j].filler.with # tink.applied[i].filler.with

\* C34: a template generated by WithCustomControlPlaneTemplateConfig or
\* WithCustomWorkerTemplateConfig holds the OS image URL the datacenter config
\* had when that filler began, whatever WithTinkerbellOSImageURL fillers were
\* applied after it, while the datacenter config holds the URL of the latest
\* WithTinkerbellOSImageURL applied.  Hence, on any config whose URL differs
\* from u and on which the template filler succeeds, applying
\* WithTinkerbellOSImageURL(u) before the template filler and applying it after
\* give different configs.
C34_TemplateKeepsUrlOfItsMoment ==
    /\ \A i \in 1..Len(tink.applied) :
           LET a == tink.applied[i] IN
           /\ a.filler.with \in TemplateFillers /\ a.err = NoErr /\ LastOfItsKind(i) =>
                  tink.config.templateConfigs[TemplateName(a.filler.with)].OSImageURL
                      = a.url
           /\ a.filler.with = "WithTinkerbellOSImageURL" /\ LastOfItsKind(i) =>
                  tink.config.datacenterConfig.OSImageURL = a.filler.arg
    /\ tink.pc = "filling" =>
           \A u \in {"url-1", "url-2"}, with \in TemplateFillers :
               LET setUrl   == [with |-> "WithTinkerbellOSImageURL", arg |-> u]
                   template == [with |-> with, arg |-> ""]
               IN
               /\ u # tink.config.datacenterConfig.OSImageURL
               /\ Fill(template, tink.config).err = NoErr
               /\ ~Fill(template, tink.config).panic
               => FillAll(tink.config, <<setUrl, template>>)
                      # FillAll(tink.config, <<template, setUrl>>)

\* A call given WithCustomControlPlaneTemplateConfig and then
\* WithTinkerbellOSImageURL("url-1") has returned its bytes: the datacenter
\* config holds "url-1", the control plane template the URL of the file.
C34_Witness ==
    /\ tink.pc = "done"
    /\ tink.out.bytes # << >>
    /\ Len(tink.applied) = 2
    /\ tink.applied[1].filler.with = "WithCustomControlPlaneTemplateConfig"
    /\ tink.applied[2].filler = [with |-> "WithTinkerbellOSImageURL", arg |-> "url-1"]
    /\ tink.config.datacenterConfig.OSImageURL = "url-1"
    /\ tink.config.templateConfigs[GetControlPlaneNodeName(ClusterName)].OSImageURL
           = tink.file.datacenterConfig.OSImageURL
    /\ tink.file.datacenterConfig.OSImageURL # "url-1"

====
